---- MODULE Spec2Model ----
(***************************************************************************)
(* Bullet time resolver of the journal app (lib/parse-bullets.ts).         *)
(*                                                                         *)
(* Text is modelled as a sequence of characters (one-character strings;    *)
(* the two non-ASCII glyphs the code names are the tokens ENDASH and       *)
(* BULLET).  The regular expressions of the source are modelled by         *)
(* matchers over these sequences that follow the backtracking order of     *)
(* the JavaScript engine.  Clock times are {hours, minutes} records,       *)
(* Date values are minutes since the epoch of the model (local wall clock).*)
(* Fractional hours of the interpolation are exact rationals; Math.round   *)
(* at an exact half minute depends on the rounding error of the double     *)
(* and is a choice (halfUp) made per call.                                 *)
(***************************************************************************)
EXTENDS Integers, Sequences, FiniteSets, TLC

VARIABLES
    pc,                 \* position of the running call
    morning, afternoon, night,   \* the three bucket texts (NullText when absent)
    date,               \* the date argument: [day, tod] (tod = minutes past midnight)
    halfUp,             \* direction of Math.round at an exact half minute
    morningBullets, afternoonBullets, nightBullets,  \* parseSection results
    all,                \* ParsedEntry.all
    timeStr,            \* argument of a direct parseTimeString call
    timeOut,            \* its result
    written,            \* how the numbers of the entry's first line were written
    time,               \* argument of a findBulletsAtTime call, minutes since the epoch
    found,              \* its result
    earlier,            \* the earlier parseEntry calls: their arguments and results
    shown,              \* argument of a formatTimeDisplay call
    label,              \* its result
    \* useEntryForm
    formDate,           \* form.date
    isNewEntry,         \* !entry
    existingEntryDate,  \* the state existingEntryDate (NoDate for null)
    showOverwriteConfirm,
    loading,
    checks,             \* the dates of the existing-entry checks in flight, as issued
    entries,            \* the dates that have an entry in the database
    upserts,            \* the upserts issued: their date and the date confirmed before
    \* useDebouncedValue
    localValue,
    externalValue,      \* the value prop of the last render
    isTyping,           \* isTypingRef.current
    timer,              \* the timeouts still to run: when due, the value, its handleChange
    now,                \* the clock, in steps
    mounted,
    changes,            \* the handleChange calls made: value and time
    onChangeCalls       \* the onChange calls made: value and time

parseVars == <<pc, morning, afternoon, night, date, halfUp,
               morningBullets, afternoonBullets, nightBullets, all, timeStr, timeOut,
               written, time, found, earlier, shown, label>>

formVars == <<formDate, isNewEntry, existingEntryDate, showOverwriteConfirm, loading,
              checks, entries, upserts>>

debounceVars == <<localValue, externalValue, isTyping, timer, now, mounted,
                  changes, onChangeCalls>>

vars == <<pc, morning, afternoon, night, date, halfUp,
          morningBullets, afternoonBullets, nightBullets, all, timeStr, timeOut,
          written, time, found, earlier, shown, label,
          formVars, debounceVars>>

-----------------------------------------------------------------------------
(* Characters *)

ENDASH == "endash"
BULLET == "bullet"
NL == "\n"

\* the digit d as a character
DecimalDigit(d) ==
    CASE d = 0 -> "0" [] d = 1 -> "1" [] d = 2 -> "2" [] d = 3 -> "3" [] d = 4 -> "4"
      [] d = 5 -> "5" [] d = 6 -> "6" [] d = 7 -> "7" [] d = 8 -> "8" [] d = 9 -> "9"

Digits == {"0", "1", "2", "3", "4", "5", "6", "7", "8", "9"}

Letters == {"a", "b", "c", "d", "e", "f", "g", "h", "i", "j", "k", "l", "m",
            "n", "o", "p", "q", "r", "s", "t", "u", "v", "w", "x", "y", "z",
            "A", "B", "C", "D", "E", "F", "G", "H", "I", "J", "K", "L", "M",
            "N", "O", "P", "Q", "R", "S", "T", "U", "V", "W", "X", "Y", "Z"}

\* \s of the regular expressions (the newline is \s too)
WhiteSpace == {" ", "\t", NL}

\* \w, the word characters that decide \b
WordChars == Digits \cup Letters \cup {"_"}

DigitVal == [c \in Digits |->
    CASE c = "0" -> 0 [] c = "1" -> 1 [] c = "2" -> 2 [] c = "3" -> 3
      [] c = "4" -> 4 [] c = "5" -> 5 [] c = "6" -> 6 [] c = "7" -> 7
      [] c = "8" -> 8 [] c = "9" -> 9]

\* the character at position i, "" past either end
At(s, i) == IF i >= 1 /\ i <= Len(s) THEN s[i] ELSE ""

IsDigit(s, i) == At(s, i) \in Digits

Min(S) == CHOOSE x \in S : \A y \in S : x <= y

\* position after a greedy \s* that starts at i
SkipWs(s, i) == Min({j \in i..(Len(s) + 1) : At(s, j) \notin WhiteSpace})

\* String.prototype.trim, keep being the positions that are not white space
TrimTo(s, keep) ==
    IF keep = {} THEN <<>>
    ELSE SubSeq(s, Min(keep), CHOOSE x \in keep : \A y \in keep : y <= x)

Trim(s) == TrimTo(s, {j \in 1..Len(s) : s[j] \notin WhiteSpace})

\* s.replace(/\s/g, '')
RECURSIVE StripWs(_)
StripWs(s) ==
    IF s = <<>> THEN <<>>
    ELSE IF Head(s) \in WhiteSpace THEN StripWs(Tail(s))
    ELSE <<Head(s)>> \o StripWs(Tail(s))

\* parseInt(digits, 10) of the digits s[from..to]
RECURSIVE ParseInt(_, _, _)
ParseInt(s, from, to) ==
    IF to < from THEN 0
    ELSE 10 * ParseInt(s, from, to - 1) + DigitVal[s[to]]

\* (am|pm) with the i flag at position i: "am", "pm" or "" when there is none
MeridiemAt(s, i) ==
    IF At(s, i + 1) \in {"m", "M"} THEN
        IF At(s, i) \in {"a", "A"} THEN "am"
        ELSE IF At(s, i) \in {"p", "P"} THEN "pm"
        ELSE ""
    ELSE ""

-----------------------------------------------------------------------------
(* The time token (\d{1,2})(?::(\d{2}))? and its backtracking order *)

\* One way the token can match at position i: the hour digits are
\* s[i..hEnd], the minutes (when hasMin) the two digits before next.
TimeTokenCand(i, nd, withMin) ==
    [hFrom |-> i, hEnd |-> i + nd - 1, hasMin |-> withMin,
     next |-> IF withMin THEN i + nd + 3 ELSE i + nd]

HasMinutesAt(s, j) == At(s, j) = ":" /\ IsDigit(s, j + 1) /\ IsDigit(s, j + 2)

\* All the ways the token matches at i, in the order the engine tries them:
\* two digits before one, with the optional minutes before without.
TimeTokenCands(s, i) ==
    LET forDigits(nd) ==
            (IF HasMinutesAt(s, i + nd) THEN <<TimeTokenCand(i, nd, TRUE)>> ELSE <<>>)
            \o <<TimeTokenCand(i, nd, FALSE)>>
    IN  (IF IsDigit(s, i) /\ IsDigit(s, i + 1) THEN forDigits(2) ELSE <<>>)
        \o (IF IsDigit(s, i) THEN forDigits(1) ELSE <<>>)

NoCand == [hFrom |-> 0, hEnd |-> 0, hasMin |-> FALSE, next |-> 0]

\* the first candidate after which the rest of the expression matches
FirstCand(matching) == IF matching = <<>> THEN NoCand ELSE matching[1]

CandHours(s, c) == ParseInt(s, c.hFrom, c.hEnd)
CandMinutes(s, c) == IF c.hasMin THEN ParseInt(s, c.next - 2, c.next - 1) ELSE 0

-----------------------------------------------------------------------------
(* parseTimeString *)

TimeOfDay(h, m) == [hours |-> h, minutes |-> m]

\* null / undefined where a TimeOfDay is expected
NoTime == [hours |-> -1, minutes |-> -1]

\* /^(\d{1,2}):(\d{2})$/
Time24Match(s) ==
    FirstCand(SelectSeq(TimeTokenCands(s, 1), LAMBDA c : c.hasMin /\ c.next = Len(s) + 1))

\* /^(\d{1,2})(?::(\d{2}))?\s*(am|pm)$/i
Time12Match(s) ==
    FirstCand(SelectSeq(TimeTokenCands(s, 1),
              LAMBDA c : LET j == SkipWs(s, c.next)
                         IN  MeridiemAt(s, j) # "" /\ j + 1 = Len(s)))

\* Time12 without the exceptions for 12: pm always adds 12, am never resets
Time12_NoNoon(h, mi, period) ==
    IF h < 1 \/ h > 12 THEN NoTime
    ELSE IF mi < 0 \/ mi > 59 THEN NoTime
    ELSE IF period = "pm" THEN TimeOfDay(h + 12, mi)
    ELSE TimeOfDay(h, mi)

\* the 12-hour branch: hours and minutes parsed, period lower-cased
Time12(h, mi, period) ==
    IF h < 1 \/ h > 12 THEN NoTime
    ELSE IF mi < 0 \/ mi > 59 THEN NoTime
    ELSE IF period = "pm" /\ h # 12 THEN TimeOfDay(h + 12, mi)
    ELSE IF period = "am" /\ h = 12 THEN TimeOfDay(0, mi)
    ELSE TimeOfDay(h, mi)

\* the 24-hour branch accepts these hours and minutes
Valid24(h, mi) == h >= 0 /\ h <= 23 /\ mi >= 0 /\ mi <= 59

\* the body of parseTimeString, given the two matches
TimeFromMatches(s, m24, m12) ==
    IF m24 # NoCand /\ Valid24(CandHours(s, m24), CandMinutes(s, m24))
    THEN TimeOfDay(CandHours(s, m24), CandMinutes(s, m24))
    ELSE IF m12 # NoCand
    THEN Time12(CandHours(s, m12), CandMinutes(s, m12),
                MeridiemAt(s, SkipWs(s, m12.next)))
    ELSE NoTime

parseTimeString(s) == TimeFromMatches(s, Time24Match(s), Time12Match(s))

-----------------------------------------------------------------------------
(* extractTimeFromText *)

\* the first element of a set of positions, 0 when it is empty
FirstPos(S) == IF S = {} THEN 0 ELSE Min(S)

\* /(\d{1,2})(?::(\d{2}))?\s*(am|pm)/i at position i
ExplicitCandAt(s, i) ==
    FirstCand(SelectSeq(TimeTokenCands(s, i),
              LAMBDA c : MeridiemAt(s, SkipWs(s, c.next)) # ""))

\* what follows the token c in /\b(\d{1,2})(?::(\d{2}))?(?!\/\d)\b/
BareRest(s, c) ==
    /\ ~(At(s, c.next) = "/" /\ IsDigit(s, c.next + 1))
    /\ At(s, c.next) \notin WordChars

\* /\b(\d{1,2})(?::(\d{2}))?(?!\/\d)\b/ at position i
BareCandAt(s, i) ==
    IF At(s, i - 1) \in WordChars THEN NoCand
    ELSE FirstCand(SelectSeq(TimeTokenCands(s, i), LAMBDA c : BareRest(s, c)))

\* InferredTime adding twelve hours to every PM hour, noon too
InferredTime_NoonPlusTwelve(hours, minutes, isPM) ==
    IF hours >= 1 /\ hours <= 12 /\ minutes >= 0 /\ minutes <= 59
    THEN TimeOfDay(IF isPM THEN hours + 12
                   ELSE IF hours = 12 THEN 0
                   ELSE hours, minutes)
    ELSE NoTime

\* the bare time with AM/PM inferred from the section
InferredTime(hours, minutes, isPM) ==
    IF hours >= 1 /\ hours <= 12 /\ minutes >= 0 /\ minutes <= 59
    THEN TimeOfDay(IF isPM /\ hours # 12 THEN hours + 12
                   ELSE IF ~isPM /\ hours = 12 THEN 0
                   ELSE hours, minutes)
    ELSE NoTime

\* explicitMatch[0].replace(/\s/g, '') for the match at ei with token c
ExplicitText(text, ei, c) == StripWs(SubSeq(text, ei, SkipWs(text, c.next) + 1))

\* TimeFromSearch trying the bare time before the explicit one
TimeFromSearch_BareFirst(text, section, ei, bi) ==
    IF bi # 0 THEN
        InferredTime(CandHours(text, BareCandAt(text, bi)),
                     CandMinutes(text, BareCandAt(text, bi)),
                     section = "afternoon" \/ section = "night")
    ELSE IF ei # 0 THEN parseTimeString(ExplicitText(text, ei, ExplicitCandAt(text, ei)))
    ELSE NoTime

\* the body of extractTimeFromText, given where the two searches matched
TimeFromSearch(text, section, ei, bi) ==
    IF ei # 0 THEN parseTimeString(ExplicitText(text, ei, ExplicitCandAt(text, ei)))
    ELSE IF bi # 0 THEN
        InferredTime(CandHours(text, BareCandAt(text, bi)),
                     CandMinutes(text, BareCandAt(text, bi)),
                     section = "afternoon" \/ section = "night")
    ELSE NoTime

extractTimeFromText(text, section) ==
    TimeFromSearch(text, section,
        FirstPos({i \in 1..Len(text) : ExplicitCandAt(text, i) # NoCand}),
        FirstPos({i \in 1..Len(text) : BareCandAt(text, i) # NoCand}))

-----------------------------------------------------------------------------
(* extractTimePrefix *)

\* Prefix putting the earlier of the two times first
Prefix_Ordered(startTime, endTime, rest) ==
    IF /\ startTime.hours >= 0 /\ endTime.hours >= 0
       /\ startTime.hours * 60 + startTime.minutes > endTime.hours * 60 + endTime.minutes
    THEN [startTime |-> endTime, endTime |-> startTime, rest |-> rest]
    ELSE [startTime |-> startTime, endTime |-> endTime, rest |-> rest]

Prefix(startTime, endTime, rest) ==
    [startTime |-> startTime, endTime |-> endTime, rest |-> rest]

\* where (.*) starts after \s*[-ENDASH:]?\s* matched greedily from p
AfterOptionalSep(s, p1) ==
    SkipWs(s, IF At(s, p1) \in {"-", ENDASH, ":"} THEN p1 + 1 ELSE p1)

\* RestFrom that leaves the separator in the text
RestFrom_KeepSeparator(s, p) == SubSeq(s, SkipWs(s, p), Len(s))

RestFrom(s, p) == SubSeq(s, AfterOptionalSep(s, SkipWs(s, p)), Len(s))

\* a token followed by \s*(am|pm): the position after the meridiem, 0 if none
MeridiemEndAt(s, j) == IF MeridiemAt(s, j) # "" THEN j + 2 ELSE 0

TokenMeridiemEnd(s, c) == MeridiemEndAt(s, SkipWs(s, c.next))

\* the second bound of a range: the token at k followed by \s*(am|pm)
RangeEndCand(s, k) ==
    FirstCand(SelectSeq(TimeTokenCands(s, k), LAMBDA c : TokenMeridiemEnd(s, c) # 0))

\* the position after \s* sep \s* from j when s[j] is in seps, else 0
AfterSepAt(s, j, seps) == IF At(s, j) \in seps THEN SkipWs(s, j + 1) ELSE 0

\* Pattern 1: where the second bound starts after token c1 and \s*-\s*
SharedEndStart(s, c1) == AfterSepAt(s, SkipWs(s, c1.next), {"-"})

\* a second bound starts at k (k = 0: the separator did not match)
HasRangeEnd(s, k) == k # 0 /\ RangeEndCand(s, k) # NoCand

\* Pattern 1: /^(T)\s*-\s*(T)\s*(am|pm)\s*[-ENDASH:]?\s*(.*)$/i
RangeSharedStartCand(s) ==
    FirstCand(SelectSeq(TimeTokenCands(s, 1), LAMBDA c : HasRangeEnd(s, SharedEndStart(s, c))))

\* Pattern 2: where the second bound starts after (T\s*(am|pm)) ending at e1
FullEndStartFrom(s, e1) ==
    IF e1 = 0 THEN 0 ELSE AfterSepAt(s, SkipWs(s, e1), {"-", ENDASH})

FullEndStart(s, c1) == FullEndStartFrom(s, TokenMeridiemEnd(s, c1))

\* Pattern 2: /^(T\s*(?:am|pm))\s*[-ENDASH]\s*(T\s*(?:am|pm))\s*[-ENDASH:]?\s*(.*)$/i
RangeFullStartCand(s) ==
    FirstCand(SelectSeq(TimeTokenCands(s, 1), LAMBDA c : HasRangeEnd(s, FullEndStart(s, c))))

\* Pattern 3: /^(T\s*(?:am|pm))\s*[-ENDASH:]?\s*(.*)$/i
SingleCand(s) ==
    FirstCand(SelectSeq(TimeTokenCands(s, 1), LAMBDA c : TokenMeridiemEnd(s, c) # 0))

\* Pattern 4: /^(\d{1,2}:\d{2})\s*[-ENDASH:]?\s*(.*)$/
Prefix24Cand(s) == FirstCand(SelectSeq(TimeTokenCands(s, 1), LAMBDA c : c.hasMin))

\* RangeSharedPrefix reading the second bound from the first one's text
RangeSharedPrefix_EndFromStart(s, e1, k, e2, mEnd) ==
    Prefix(parseTimeString(SubSeq(s, 1, e1) \o SubSeq(s, mEnd - 2, mEnd - 1)),
           parseTimeString(SubSeq(s, 1, e1) \o SubSeq(s, mEnd - 2, mEnd - 1)),
           RestFrom(s, mEnd))

\* Pattern 1 matched: first bound s[1..e1], second s[k..e2], meridiem before mEnd
RangeSharedPrefix(s, e1, k, e2, mEnd) ==
    Prefix(parseTimeString(SubSeq(s, 1, e1) \o SubSeq(s, mEnd - 2, mEnd - 1)),
           parseTimeString(SubSeq(s, k, e2) \o SubSeq(s, mEnd - 2, mEnd - 1)),
           RestFrom(s, mEnd))

RangeSharedFrom(s, c1, k, e) ==
    RangeSharedPrefix(s, c1.next - 1, k, e.next - 1, TokenMeridiemEnd(s, e))

\* Pattern 2 matched: first bound s[1..mEnd1-1], second s[k..mEnd2-1]
RangeFullPrefix(s, mEnd1, k, mEnd2) ==
    Prefix(parseTimeString(StripWs(SubSeq(s, 1, mEnd1 - 1))),
           parseTimeString(StripWs(SubSeq(s, k, mEnd2 - 1))),
           RestFrom(s, mEnd2))

RangeFullFrom(s, c2, k) ==
    RangeFullPrefix(s, TokenMeridiemEnd(s, c2), k,
                    TokenMeridiemEnd(s, RangeEndCand(s, k)))

\* Pattern 3 matched: the time is s[1..mEnd-1]
SinglePrefix(s, mEnd) ==
    Prefix(parseTimeString(StripWs(SubSeq(s, 1, mEnd - 1))), NoTime, RestFrom(s, mEnd))

\* the time t of the morning moved to the afternoon
MovedToPM(t) == IF t.hours >= 1 /\ t.hours <= 11 THEN TimeOfDay(t.hours + 12, t.minutes) ELSE t

\* Prefix24 reading the hours 1..11 as PM
Prefix24_ReadAsPM(s, next) ==
    Prefix(MovedToPM(parseTimeString(SubSeq(s, 1, next - 1))), NoTime, RestFrom(s, next))

\* Pattern 4 matched: the time is s[1..next-1]
Prefix24(s, next) ==
    Prefix(parseTimeString(SubSeq(s, 1, next - 1)), NoTime, RestFrom(s, next))

\* PrefixFromMatches trying the single time before the full range
PrefixFromMatches_SingleFirst(s, c1, c2, c3, c4) ==
    IF c1 # NoCand
    THEN RangeSharedFrom(s, c1, SharedEndStart(s, c1),
                         RangeEndCand(s, SharedEndStart(s, c1)))
    ELSE IF c3 # NoCand THEN SinglePrefix(s, TokenMeridiemEnd(s, c3))
    ELSE IF c2 # NoCand THEN RangeFullFrom(s, c2, FullEndStart(s, c2))
    ELSE IF c4 # NoCand THEN Prefix24(s, c4.next)
    ELSE Prefix(NoTime, NoTime, s)

\* the body of extractTimePrefix on the trimmed text, given the four matches
PrefixFromMatches(s, c1, c2, c3, c4) ==
    IF c1 # NoCand
    THEN RangeSharedFrom(s, c1, SharedEndStart(s, c1),
                         RangeEndCand(s, SharedEndStart(s, c1)))
    ELSE IF c2 # NoCand THEN RangeFullFrom(s, c2, FullEndStart(s, c2))
    ELSE IF c3 # NoCand THEN SinglePrefix(s, TokenMeridiemEnd(s, c3))
    ELSE IF c4 # NoCand THEN Prefix24(s, c4.next)
    ELSE Prefix(NoTime, NoTime, s)

PrefixOfTrimmed(s) ==
    PrefixFromMatches(s, RangeSharedStartCand(s), RangeFullStartCand(s),
                      SingleCand(s), Prefix24Cand(s))

extractTimePrefix(text) == PrefixOfTrimmed(Trim(text))

-----------------------------------------------------------------------------
(* Dates: minutes since the epoch of the model, local wall clock *)

\* typeof date === 'string' ? new Date(date + 'T00:00:00') : date
EntryDate(d) == IF d.str THEN [day |-> d.day, tod |-> 0] ELSE [day |-> d.day, tod |-> d.tod]

\* SetHours adding the clock time to the date's own time of day
SetHours_AddsToTimeOfDay(entryDate, h, m) ==
    entryDate.day * 24 * 60 + entryDate.tod + h * 60 + m

\* const t = new Date(entryDate); t.setHours(h, m, 0, 0); t.getTime()
SetHours(entryDate, h, m) == entryDate.day * 24 * 60 + h * 60 + m

\* OneHourFrom ending half an hour after the start
OneHourFrom_HalfHour(start) == <<start, start + 30>>

\* [start, new Date(start.getTime() + 60 * 60 * 1000)]
OneHourFrom(start) == <<start, start + 60>>

-----------------------------------------------------------------------------
(* SECTION_RANGES and interpolateTimes *)

Sections == {"morning", "afternoon", "night"}

SECTION_RANGES ==
    [morning |-> [start |-> 6, end |-> 12],
     afternoon |-> [start |-> 12, end |-> 18],
     night |-> [start |-> 18, end |-> 23]]

\* b.timeStart.hours + b.timeStart.minutes / 60, in minutes
AnchorMinutes(b) == b.timeStart.hours * 60 + b.timeStart.minutes

\* Math.round(r / d) for r >= 0, d > 0; up says where an exact half goes
RoundDiv(r, d, up) ==
    IF (2 * r) % (2 * d) = d
    THEN IF up THEN r \div d + 1 ELSE r \div d
    ELSE (2 * r + d) \div (2 * d)

\* the bullet with its interpolated time and the window recomputed from it
WithTime(bullet, entryDate, adjustedHours, adjustedMinutes) ==
    [bullet EXCEPT
        !.timeStart = TimeOfDay(adjustedHours, adjustedMinutes),
        !.estimatedTimeRange =
            OneHourFrom(SetHours(entryDate, adjustedHours, adjustedMinutes))]

\* Adjusted leaving 60 minutes as they are
Adjusted_NoCarry(bullet, entryDate, wholeHours, minutes) ==
    WithTime(bullet, entryDate, wholeHours, minutes)

\* the minute overflow: 60 minutes become the next hour
Adjusted(bullet, entryDate, wholeHours, minutes) ==
    WithTime(bullet, entryDate,
             IF minutes >= 60 THEN wholeHours + 1 ELSE wholeHours,
             IF minutes >= 60 THEN 0 ELSE minutes)

FromWholeHours(bullet, num, den, entryDate, up, wholeHours) ==
    Adjusted(bullet, entryDate, wholeHours,
             RoundDiv(num - 60 * den * wholeHours, den, up))

\* setInterpolatedTime(bullet, hours) with hours = num / (60 * den)
setInterpolatedTime(bullet, num, den, entryDate, up) ==
    FromWholeHours(bullet, num, den, entryDate, up, num \div (60 * den))

\* StepHours counting the steps from zero
StepHours_ZeroBased(startM, endM, den, k) == startM * den + (endM - startM) * (k - 1)

\* startHours + step * k with step = (endHours - startHours) / den,
\* as the numerator over 60 * den (startM and endM are in minutes)
StepHours(startM, endM, den, k) == startM * den + (endM - startM) * k

\* the bullet at startM + k steps of (endM - startM) / den
Stepped(bullet, startM, endM, den, k, entryDate, up) ==
    setInterpolatedTime(bullet, StepHours(startM, endM, den, k), den, entryDate, up)

\* the anchors around position i
FirstAnchor(anchors) == Min(anchors)
LastAnchor(anchors) == CHOOSE i \in anchors : \A j \in anchors : j <= i
PrevAnchor(anchors, i) == LastAnchor({a \in anchors : a < i})
NextAnchor(anchors, i) == Min({a \in anchors : a > i})

\* Between counting the steps from the second anchor instead of the first
Between_CountFromEnd(bullets, i, p, q, entryDate, up) ==
    Stepped(bullets[i], AnchorMinutes(bullets[p]), AnchorMinutes(bullets[q]),
            q - p, q - i, entryDate, up)

\* 2. between the anchors at positions p and q
Between(bullets, i, p, q, entryDate, up) ==
    Stepped(bullets[i], AnchorMinutes(bullets[p]), AnchorMinutes(bullets[q]),
            q - p, i - p, entryDate, up)

\* Interpolated with the steps before the first and after the last anchor
\* divided by count instead of count + 1
Interpolated_CountOffByOne(bullets, anchors, i, sectionRange, entryDate, up) ==
    IF anchors = {} THEN
        Stepped(bullets[i], sectionRange.start * 60, sectionRange.end * 60,
                Len(bullets) + 1, i, entryDate, up)
    ELSE IF i < FirstAnchor(anchors) THEN
        Stepped(bullets[i], sectionRange.start * 60,
                AnchorMinutes(bullets[FirstAnchor(anchors)]),
                FirstAnchor(anchors) - 1, i, entryDate, up)
    ELSE IF i > LastAnchor(anchors) THEN
        Stepped(bullets[i], AnchorMinutes(bullets[LastAnchor(anchors)]),
                sectionRange.end * 60,
                Len(bullets) - LastAnchor(anchors), i - LastAnchor(anchors),
                entryDate, up)
    ELSE Between(bullets, i, PrevAnchor(anchors, i), NextAnchor(anchors, i),
                 entryDate, up)

\* the time given to the bullet at position i, which is no anchor
Interpolated(bullets, anchors, i, sectionRange, entryDate, up) ==
    IF anchors = {} THEN
        \* no anchors: distribute evenly across the section
        Stepped(bullets[i], sectionRange.start * 60, sectionRange.end * 60,
                Len(bullets) + 1, i, entryDate, up)
    ELSE IF i < FirstAnchor(anchors) THEN
        \* 1. before the first anchor
        Stepped(bullets[i], sectionRange.start * 60,
                AnchorMinutes(bullets[FirstAnchor(anchors)]),
                FirstAnchor(anchors), i, entryDate, up)
    ELSE IF i > LastAnchor(anchors) THEN
        \* 3. after the last anchor
        Stepped(bullets[i], AnchorMinutes(bullets[LastAnchor(anchors)]),
                sectionRange.end * 60,
                Len(bullets) - LastAnchor(anchors) + 1, i - LastAnchor(anchors),
                entryDate, up)
    ELSE Between(bullets, i, PrevAnchor(anchors, i), NextAnchor(anchors, i),
                 entryDate, up)

\* the positions of the bullets with explicit times
Anchors(bullets) == {i \in 1..Len(bullets) : bullets[i].timeStart # NoTime}

InterpolatedAround(bullets, anchors, sectionRange, entryDate, up) ==
    [i \in 1..Len(bullets) |->
        IF i \in anchors THEN bullets[i]
        ELSE Interpolated(bullets, anchors, i, sectionRange, entryDate, up)]

\* interpolateTimes that spreads every bullet over the section, anchors too
interpolateTimes_Overwrite(bullets, sectionRange, entryDate, up) ==
    [i \in 1..Len(bullets) |->
        Stepped(bullets[i], sectionRange.start * 60, sectionRange.end * 60,
                Len(bullets) + 1, i, entryDate, up)]

interpolateTimes(bullets, sectionRange, entryDate, up) ==
    InterpolatedAround(bullets, Anchors(bullets), sectionRange, entryDate, up)

-----------------------------------------------------------------------------
(* parseSection *)

\* null and undefined texts
NullText == <<"null">>

\* the positions of the newlines of text within lo..hi, in order
RECURSIVE NewlinesIn(_, _, _)
NewlinesIn(text, lo, hi) ==
    IF lo > hi THEN <<>>
    ELSE IF lo = hi THEN (IF text[lo] = NL THEN <<lo>> ELSE <<>>)
    ELSE NewlinesIn(text, lo, (lo + hi) \div 2)
         \o NewlinesIn(text, (lo + hi) \div 2 + 1, hi)

\* the pieces of text between the cuts
SplitAt(text, cuts) ==
    [k \in 1..(Len(cuts) - 1) |-> SubSeq(text, cuts[k] + 1, cuts[k + 1] - 1)]

\* text.split('\n')
Split(text) ==
    SplitAt(text, <<0>> \o NewlinesIn(text, 1, Len(text)) \o <<Len(text) + 1>>)

\* text.split('\n').filter(line => line.trim())
Lines(text) == SelectSeq(Split(text), LAMBDA line : Trim(line) # <<>>)

BulletMarkers == {"-", BULLET, "*"}

\* line.replace(/^[\s]*[-BULLET*]\s*/, ''), p being where the white space ends
WithoutMarker(line, p) ==
    IF At(line, p) \in BulletMarkers
    THEN SubSeq(line, SkipWs(line, p + 1), Len(line))
    ELSE line

\* line.replace(/^[\s]*[-BULLET*]\s*/, '').trim()
CleanLine(line) == Trim(WithoutMarker(line, SkipWs(line, 1)))

\* the midpoint of the section as [hours, minutes]
MidpointStart(entryDate, range) ==
    SetHours(entryDate, (range.start + range.end) \div 2,
             ((range.start + range.end) % 2) * 30)

\* the record pushed for a line, given its prefix and extracted time
BulletWith(cleanedLine, section, entryDate, index, prefix, extractedTime) ==
    [text |-> IF prefix.rest # <<>> THEN prefix.rest ELSE cleanedLine,
     rawText |-> cleanedLine,
     timeStart |-> extractedTime,
     timeEnd |-> prefix.endTime,
     estimatedTimeRange |->
        OneHourFrom(IF extractedTime # NoTime
                    THEN SetHours(entryDate, extractedTime.hours, extractedTime.minutes)
                    ELSE MidpointStart(entryDate, SECTION_RANGES[section])),
     section |-> section,
     index |-> index]

BulletOfPrefix(cleanedLine, section, entryDate, index, prefix) ==
    BulletWith(cleanedLine, section, entryDate, index, prefix,
               IF prefix.startTime # NoTime THEN prefix.startTime
               ELSE extractTimeFromText(cleanedLine, section))

\* the record pushed for one cleaned line
Bullet(cleanedLine, section, entryDate, index) ==
    BulletOfPrefix(cleanedLine, section, entryDate, index,
                   extractTimePrefix(cleanedLine))

\* one round of lines.forEach: what the line cleaned to cleanedLine pushes
\* when bullets.length is length
Pushed(length, cleanedLine, section, entryDate, startIndex) ==
    IF cleanedLine = <<>> THEN <<>>
    ELSE <<Bullet(cleanedLine, section, entryDate, startIndex + length)>>

\* lines.forEach(...) over the lines lo..hi: what they push when
\* bullets.length is length before them
RECURSIVE PushLines(_, _, _, _, _, _, _)
ThenPushLines(pushed, lines, lo, hi, length, section, entryDate, startIndex) ==
    pushed \o PushLines(lines, lo, hi, length + Len(pushed), section, entryDate, startIndex)

PushLines(lines, lo, hi, length, section, entryDate, startIndex) ==
    IF lo > hi THEN <<>>
    ELSE IF lo = hi THEN
        Pushed(length, CleanLine(lines[lo]), section, entryDate, startIndex)
    ELSE ThenPushLines(PushLines(lines, lo, (lo + hi) \div 2, length,
                                 section, entryDate, startIndex),
                       lines, (lo + hi) \div 2 + 1, hi, length,
                       section, entryDate, startIndex)

\* the bullets pushed for the non-blank lines
AllPushed(lines, section, entryDate, startIndex) ==
    PushLines(lines, 1, Len(lines), 0, section, entryDate, startIndex)

\* the bullets of a section before interpolateTimes runs
Assembled(text, section, entryDate, startIndex) ==
    IF text = NullText \/ text = <<>> THEN <<>>
    ELSE AllPushed(Lines(text), section, entryDate, startIndex)

parseSection(text, section, entryDate, startIndex, up) ==
    interpolateTimes(Assembled(text, section, entryDate, startIndex),
                     SECTION_RANGES[section], entryDate, up)

-----
(* parseEntry, one step per statement *)

\* ParseMorning numbering its records from a counter of the calls made
ParseMorning_CountsCalls ==
    /\ pc = "start"
    /\ morningBullets' = parseSection(morning, "morning", EntryDate(date),
                                      Len(earlier), halfUp)
    /\ pc' = "morning"
    /\ UNCHANGED <<morning, afternoon, night, date, halfUp,
                   afternoonBullets, nightBullets, all, timeStr, timeOut,
                   written, time, found, earlier, shown, label, formVars, debounceVars>>

ParseMorning ==
    /\ pc = "start"
    /\ morningBullets' = parseSection(morning, "morning", EntryDate(date), 0, halfUp)
    /\ pc' = "morning"
    /\ UNCHANGED <<morning, afternoon, night, date, halfUp,
                   afternoonBullets, nightBullets, all, timeStr, timeOut,
                   written, time, found, earlier, shown, label, formVars, debounceVars>>

\* ParseAfternoon taking the morning's range when the morning has records
ParseAfternoon_MorningRange ==
    /\ pc = "morning"
    /\ afternoonBullets' =
          parseSection(afternoon,
                       IF morningBullets = <<>> THEN "afternoon" ELSE "morning",
                       EntryDate(date), Len(morningBullets), halfUp)
    /\ pc' = "afternoon"
    /\ UNCHANGED <<morning, afternoon, night, date, halfUp,
                   morningBullets, nightBullets, all, timeStr, timeOut,
                   written, time, found, earlier, shown, label, formVars, debounceVars>>

ParseAfternoon ==
    /\ pc = "morning"
    /\ afternoonBullets' = parseSection(afternoon, "afternoon", EntryDate(date),
                                        Len(morningBullets), halfUp)
    /\ pc' = "afternoon"
    /\ UNCHANGED <<morning, afternoon, night, date, halfUp,
                   morningBullets, nightBullets, all, timeStr, timeOut,
                   written, time, found, earlier, shown, label, formVars, debounceVars>>

\* ParseNight with the start index that forgets the afternoon's records
ParseNight_AfterMorningOnly ==
    /\ pc = "afternoon"
    /\ nightBullets' = parseSection(night, "night", EntryDate(date),
                                    Len(morningBullets), halfUp)
    /\ pc' = "night"
    /\ UNCHANGED <<morning, afternoon, night, date, halfUp,
                   morningBullets, afternoonBullets, all, timeStr, timeOut,
                   written, time, found, earlier, shown, label, formVars, debounceVars>>

ParseNight ==
    /\ pc = "afternoon"
    /\ nightBullets' = parseSection(night, "night", EntryDate(date),
                                    Len(morningBullets) + Len(afternoonBullets), halfUp)
    /\ pc' = "night"
    /\ UNCHANGED <<morning, afternoon, night, date, halfUp,
                   morningBullets, afternoonBullets, all, timeStr, timeOut,
                   written, time, found, earlier, shown, label, formVars, debounceVars>>

Return ==
    /\ pc = "night"
    /\ all' = morningBullets \o afternoonBullets \o nightBullets
    /\ pc' = "done"
    /\ UNCHANGED <<morning, afternoon, night, date, halfUp,
                   morningBullets, afternoonBullets, nightBullets, timeStr, timeOut,
                   written, time, found, earlier, shown, label, formVars, debounceVars>>

Next == ParseMorning \/ ParseAfternoon \/ ParseNight \/ Return

\* the ParsedEntry the call returns
Result ==
    [morning |-> morningBullets, afternoon |-> afternoonBullets,
     night |-> nightBullets, all |-> all]

\* the arguments of the call
Arguments == [morning |-> morning, afternoon |-> afternoon, night |-> night, date |-> date]

\* the caller keeps the result and calls parseEntry again with arguments
\* from the given sets; the new call starts with fresh locals
CallAgain(texts1, texts2, texts3, dates, maxCalls) ==
    /\ pc = "done"
    /\ Len(earlier) + 1 < maxCalls
    /\ earlier' = Append(earlier, [args |-> Arguments, result |-> Result])
    /\ morning' \in texts1 /\ afternoon' \in texts2 /\ night' \in texts3
    /\ date' \in dates
    /\ morningBullets' = <<>> /\ afternoonBullets' = <<>> /\ nightBullets' = <<>>
    /\ all' = <<>>
    /\ pc' = "start"
    /\ UNCHANGED <<halfUp, timeStr, timeOut, written, time, found, shown, label,
                   formVars, debounceVars>>

-----------------------------------------------------------------------------
(* findBulletsAtTime and getBulletTimeRange *)

\* timeMs >= estStart.getTime() && timeMs <= estEnd.getTime(), leaving the
\* end of the range out
InRange_EndExclusive(bullet, timeMs) ==
    timeMs >= bullet.estimatedTimeRange[1] /\ timeMs < bullet.estimatedTimeRange[2]

\* timeMs >= estStart.getTime() && timeMs <= estEnd.getTime()
InRange(bullet, timeMs) ==
    timeMs >= bullet.estimatedTimeRange[1] /\ timeMs <= bullet.estimatedTimeRange[2]

\* bullets.filter(bullet => ...)
findBulletsAtTime(bullets, timeMs) ==
    SelectSeq(bullets, LAMBDA bullet : InRange(bullet, timeMs))

getBulletTimeRange(bullet) == bullet.estimatedTimeRange

\* a call findBulletsAtTime(entry.all, t) on the returned entry
FindBulletsAtTimeCall(queries) ==
    /\ pc = "done"
    /\ \E t \in queries :
          /\ time' = t
          /\ found' = findBulletsAtTime(all, t)
    /\ pc' = "found"
    /\ UNCHANGED <<morning, afternoon, night, date, halfUp,
                   morningBullets, afternoonBullets, nightBullets, all,
                   timeStr, timeOut, written, earlier, shown, label, formVars, debounceVars>>

-----------------------------------------------------------------------------
(* formatTimeDisplay *)

\* n.toString() for 0 <= n < 100
NumberToString(n) ==
    IF n < 10 THEN <<DecimalDigit(n)>>
    ELSE <<DecimalDigit(n \div 10), DecimalDigit(n % 10)>>

\* str.padStart(2, '0')
PadStart2(str) == IF Len(str) < 2 THEN <<"0">> \o str ELSE str

\* time.hours % 12 || 12, without the || 12
Hour12_ZeroShown(hours) == hours % 12

\* time.hours % 12 || 12
Hour12(hours) == IF hours % 12 = 0 THEN 12 ELSE hours % 12

\* AmPm with PM only after the twelfth hour
AmPm_AfterTwelve(hours) == IF hours > 12 THEN <<"P", "M">> ELSE <<"A", "M">>

\* time.hours >= 12 ? 'PM' : 'AM'
AmPm(hours) == IF hours >= 12 THEN <<"P", "M">> ELSE <<"A", "M">>

\* mins === '00' ? `${hour12} ${ampm}` : `${hour12}:${mins} ${ampm}`
LabelOf(hour12, mins, ampm) ==
    IF mins = <<"0", "0">> THEN NumberToString(hour12) \o <<" ">> \o ampm
    ELSE NumberToString(hour12) \o <<":">> \o mins \o <<" ">> \o ampm

formatTimeDisplay(t) ==
    LabelOf(Hour12(t.hours), PadStart2(NumberToString(t.minutes)), AmPm(t.hours))

\* a call formatTimeDisplay(shown)
FormatTimeDisplayCall ==
    /\ pc = "format"
    /\ label' = formatTimeDisplay(shown)
    /\ pc' = "formatted"
    /\ UNCHANGED <<morning, afternoon, night, date, halfUp,
                   morningBullets, afternoonBullets, nightBullets, all,
                   timeStr, timeOut, written, time, found, earlier, shown, formVars, debounceVars>>

\* the caller writes the label, a separator and some text as the only line
\* of one bucket and calls parseEntry
WriteLabelled(separators, tails) ==
    /\ pc = "formatted"
    /\ \E section \in {"morning", "night"}, sep \in separators, tail \in tails :
          /\ morning' = (IF section = "morning" THEN label \o sep \o tail ELSE NullText)
          /\ night' = (IF section = "night" THEN label \o sep \o tail ELSE NullText)
          /\ written' = [written EXCEPT !.kind = "label", !.tail = tail]
    /\ pc' = "start"
    /\ UNCHANGED <<afternoon, date, halfUp,
                   morningBullets, afternoonBullets, nightBullets, all,
                   timeStr, timeOut, time, found, earlier, shown, label, formVars, debounceVars>>

-----------------------------------------------------------------------------
(* useEntryForm: the existing-entry check, handleSubmit and
   handleConfirmOverwrite *)

\* null as a date
NoDate == "null"

\* updateField('date', d), then the effect on form.date: in new-entry mode
\* it starts checkExistingEntry for the new date (the modal covers the form)
UpdateDate(dates, maxChecks) ==
    /\ pc = "form"
    /\ ~showOverwriteConfirm
    /\ \E d \in dates \ {formDate} :
          /\ formDate' = d
          /\ IF isNewEntry
             THEN Len(checks) < maxChecks /\ checks' = Append(checks, d)
             ELSE UNCHANGED checks
    /\ UNCHANGED <<isNewEntry, existingEntryDate, showOverwriteConfirm, loading,
                   entries, upserts, parseVars, debounceVars>>

\* the check at position i without it
WithoutCheck(i) == SubSeq(checks, 1, i - 1) \o SubSeq(checks, i + 1, Len(checks))

\* the query of one check returns, in any order:
\* setExistingEntryDate(data ? form.date : null) with the date of its effect
CheckExistingEntryReturns ==
    /\ pc = "form"
    /\ \E i \in 1..Len(checks) :
          /\ existingEntryDate' = (IF checks[i] \in entries THEN checks[i] ELSE NoDate)
          /\ checks' = WithoutCheck(i)
    /\ UNCHANGED <<formDate, isNewEntry, showOverwriteConfirm, loading,
                   entries, upserts, parseVars, debounceVars>>

\* setLoading(true) and the upsert of form.date; confirmed is the date the
\* user confirmed to overwrite before it, unanswered the number of checks
\* still in flight
Upsert(confirmed, maxUpserts) ==
    /\ Cardinality(upserts) < maxUpserts
    /\ loading' = TRUE
    /\ upserts' = upserts \cup {[date |-> formDate, confirmed |-> confirmed,
                                existed |-> formDate \in entries,
                                unanswered |-> Len(checks)]}

\* handleSubmit's guard before the upsert: the confirmation is asked for
AsksToConfirm(forceOverwrite) ==
    isNewEntry /\ existingEntryDate # NoDate /\ ~forceOverwrite

\* handleSubmit(e, forceOverwrite) up to the upsert
HandleSubmitFrom(forceOverwrite, confirmed, maxUpserts) ==
    IF AsksToConfirm(forceOverwrite)
    THEN showOverwriteConfirm' = TRUE /\ UNCHANGED <<loading, upserts>>
    ELSE /\ Upsert(confirmed, maxUpserts)
         /\ showOverwriteConfirm' = (showOverwriteConfirm /\ ~forceOverwrite)

\* the form is submitted (its button is disabled while loading, and the
\* modal covers the form)
HandleSubmit(maxUpserts) ==
    /\ pc = "form"
    /\ ~loading /\ ~showOverwriteConfirm
    /\ HandleSubmitFrom(FALSE, NoDate, maxUpserts)
    /\ UNCHANGED <<formDate, isNewEntry, existingEntryDate, checks, entries,
                   parseVars, debounceVars>>

\* handleConfirmOverwrite, the modal showing existingEntryDate:
\* setShowOverwriteConfirm(false), then handleSubmit(syntheticEvent, true)
HandleConfirmOverwrite(maxUpserts) ==
    /\ pc = "form"
    /\ showOverwriteConfirm /\ ~loading
    /\ HandleSubmitFrom(TRUE, existingEntryDate, maxUpserts)
    /\ UNCHANGED <<formDate, isNewEntry, existingEntryDate, checks, entries,
                   parseVars, debounceVars>>

\* the modal's onCancel: setShowOverwriteConfirm(false)
CancelOverwrite ==
    /\ pc = "form"
    /\ showOverwriteConfirm
    /\ showOverwriteConfirm' = FALSE
    /\ UNCHANGED <<formDate, isNewEntry, existingEntryDate, loading, checks, entries,
                   upserts, parseVars, debounceVars>>

\* the upsert returns: router.push('/entries') leaves the form, an error
\* keeps it; finally setLoading(false)
UpsertReturns ==
    /\ pc = "form"
    /\ loading
    /\ loading' = FALSE
    /\ \/ /\ pc' = "left"
          /\ entries' = entries \cup {formDate}
       \/ UNCHANGED <<pc, entries>>
    /\ UNCHANGED <<formDate, isNewEntry, existingEntryDate, showOverwriteConfirm,
                   checks, upserts, morning, afternoon, night, date, halfUp,
                   morningBullets, afternoonBullets, nightBullets, all, timeStr,
                   timeOut, written, time, found, earlier, shown, label, debounceVars>>

-----------------------------------------------------------------------------
(* useDebouncedValue: handleChange, its timeout, the sync with the external
   value and the cleanup on unmount *)

\* handleChange without clearTimeout: the earlier timeout still runs
Pending_KeepsEarlier(timers, newTimer) == timers \cup {newTimer}

\* the timeouts still to run after handleChange cleared timeoutRef.current
\* and set a new one
Pending(timers, newTimer) == {newTimer}

\* handleChange(newValue): setLocalValue, isTypingRef.current = true,
\* clearTimeout, setTimeout(..., delay)
HandleChange(values, delay, maxChanges) ==
    /\ pc = "debounce"
    /\ mounted
    /\ Len(changes) < maxChanges
    /\ \E v \in values :
          /\ localValue' = v
          /\ changes' = Append(changes, [value |-> v, at |-> now])
          /\ timer' = Pending(timer, [due |-> now + delay, value |-> v,
                                      of |-> Len(changes) + 1])
    /\ isTyping' = TRUE
    /\ UNCHANGED <<externalValue, now, mounted, onChangeCalls, parseVars, formVars>>

\* a timeout runs, not before it is due:
\* onChangeRef.current(newValue), isTypingRef.current = false
TimeoutRuns ==
    /\ pc = "debounce"
    /\ \E t \in timer :
          /\ now >= t.due
          /\ onChangeCalls' = Append(onChangeCalls,
                                     [value |-> t.value, at |-> now, of |-> t.of])
          /\ timer' = timer \ {t}
    /\ isTyping' = FALSE
    /\ UNCHANGED <<localValue, externalValue, now, mounted, changes,
                   parseVars, formVars>>

\* the parent renders with another externalValue; the effect on it:
\* if (!isTypingRef.current) setLocalValue(externalValue)
ExternalValueChanges(values) ==
    /\ pc = "debounce"
    /\ mounted
    /\ \E v \in values \ {externalValue} :
          /\ externalValue' = v
          /\ localValue' = (IF ~isTyping THEN v ELSE localValue)
    /\ UNCHANGED <<isTyping, timer, now, mounted, changes, onChangeCalls,
                   parseVars, formVars>>

\* time passes
Tick(maxTime) ==
    /\ pc = "debounce"
    /\ now < maxTime
    /\ now' = now + 1
    /\ UNCHANGED <<localValue, externalValue, isTyping, timer, mounted, changes,
                   onChangeCalls, parseVars, formVars>>

\* the cleanup on unmount: clearTimeout(timeoutRef.current)
Unmount ==
    /\ pc = "debounce"
    /\ mounted
    /\ mounted' = FALSE
    /\ timer' = {}
    /\ UNCHANGED <<localValue, externalValue, isTyping, now, changes, onChangeCalls,
                   parseVars, formVars>>

-----------------------------------------------------------------------------
(* Inputs: how the texts of the calls are written *)

DigitChars == <<"0", "1", "2", "3", "4", "5", "6", "7", "8", "9">>

\* a number below 100 in decimal, and in two digits
NumStr(n) ==
    IF n < 10 THEN <<DigitChars[n + 1]>>
    ELSE <<DigitChars[(n \div 10) + 1], DigitChars[(n % 10) + 1]>>

Pad2(n) == <<DigitChars[(n \div 10) + 1], DigitChars[(n % 10) + 1]>>

\* the lines lo..hi joined by newlines
RECURSIVE JoinRange(_, _, _)
JoinRange(lines, lo, hi) ==
    IF lo > hi THEN <<>>
    ELSE IF lo = hi THEN lines[lo]
    ELSE JoinRange(lines, lo, (lo + hi) \div 2) \o <<NL>>
         \o JoinRange(lines, (lo + hi) \div 2 + 1, hi)

JoinLines(lines) == JoinRange(lines, 1, Len(lines))

\* the number of lines of a text
NumLines(text) ==
    IF text = NullText THEN 0
    ELSE Cardinality({j \in 1..Len(text) : text[j] = NL}) + 1

\* the texts of 1..k lines drawn from a set of lines, and the absent text
TextsUpTo(lineSet, k) ==
    {NullText} \cup
    UNION {{JoinLines(ls) : ls \in [1..n -> lineSet]} : n \in 1..k}

\* the date arguments of the calls: a string and a Date object
Dates == {[str |-> TRUE, day |-> 19737, tod |-> 0],
          [str |-> FALSE, day |-> 19802, tod |-> 615]}

\* no direct parseTimeString call is made
NoTimeStr == [form |-> "none", h |-> 0, m |-> 0, mer |-> <<>>, text |-> <<>>]

DefaultDate == [str |-> TRUE, day |-> 19737, tod |-> 0]

\* the numbers written in a line: a range H1[:M1]-H2[:M2] with its meridiem
\* and the text after it, or a rating H1/H2; m = -1 leaves the minutes out
Written(kind, h1, m1, h2, m2, mer, tail) ==
    [kind |-> kind, h1 |-> h1, m1 |-> m1, h2 |-> h2, m2 |-> m2,
     mer |-> mer, tail |-> tail]

\* lines written otherwise
NotWritten == Written("none", 0, -1, 0, -1, <<>>, <<>>)

\* no findBulletsAtTime call is made
NoQuery == -1

\* useEntryForm is not mounted
FormUnmounted ==
    /\ formDate = NoDate /\ existingEntryDate = NoDate
    /\ isNewEntry = FALSE /\ showOverwriteConfirm = FALSE /\ loading = FALSE
    /\ checks = <<>> /\ entries = {} /\ upserts = {}

\* useDebouncedValue is not mounted
DebounceUnmounted ==
    /\ localValue = "" /\ externalValue = ""
    /\ isTyping = FALSE /\ timer = {} /\ now = 0 /\ mounted = FALSE
    /\ changes = <<>> /\ onChangeCalls = <<>>

\* no call of the parser has returned anything
NothingParsed ==
    /\ morningBullets = <<>> /\ afternoonBullets = <<>> /\ nightBullets = <<>>
    /\ all = <<>>
    /\ timeOut = NoTime
    /\ time = NoQuery /\ found = <<>>
    /\ earlier = <<>>
    /\ label = <<>>

\* no call has returned anything
NothingReturned == NothingParsed /\ FormUnmounted /\ DebounceUnmounted

\* the state before any call
Idle ==
    /\ pc = "start"
    /\ NothingReturned
    /\ shown = NoTime

-----------------------------------------------------------------------------
(* Spec: parseEntry on entries of a few lines of every kind the normalizer
   distinguishes *)

\* the total number of lines of an entry
MaxLines == 3

TopLevelLine == <<"-", " ", "a">>
IndentedLine == <<" ", " ", "-", " ", "b">>
BlankLine == <<" ">>
MarkerOnlyLine == <<"-">>
TimedLine == <<"9", "a", "m", " ", "c">>
StarLine == <<"*", " ", "d">>

EntryLines == {TopLevelLine, IndentedLine, BlankLine, MarkerOnlyLine, TimedLine, StarLine}

Init ==
    /\ Idle
    /\ morning \in TextsUpTo(EntryLines, MaxLines)
    /\ afternoon \in TextsUpTo(EntryLines, MaxLines - NumLines(morning))
    /\ night \in TextsUpTo(EntryLines, MaxLines - NumLines(morning) - NumLines(afternoon))
    /\ date \in Dates
    /\ halfUp \in BOOLEAN
    /\ timeStr = NoTimeStr
    /\ written = NotWritten

Spec == Init /\ [][Next]_vars

\* the bullets of all three sections once the call has returned
Returned == pc = "done"

(* C1: the result's all list is the morning, afternoon and night lists in
   that order, and the index of its i-th element is i (counting from 0), so
   the indexes are 0..N-1 without gap, also when lines were skipped. *)
C1_IndexContiguous ==
    Returned =>
        /\ all = morningBullets \o afternoonBullets \o nightBullets
        /\ Len(all) = Len(morningBullets) + Len(afternoonBullets) + Len(nightBullets)
        /\ \A i \in 1..Len(all) : all[i].index = i - 1

\* an entry whose morning has a record and a skipped line and whose night
\* has a record
C1_Witness ==
    /\ Returned
    /\ Len(morningBullets) >= 1 /\ Len(nightBullets) >= 1
    /\ Len(Lines(morning)) > Len(morningBullets)

\* an indented sub-item: white space before the bullet marker
IsIndentedBullet(line) ==
    At(line, 1) \in WhiteSpace /\ At(line, SkipWs(line, 1)) \in BulletMarkers

\* the non-blank lines of a text that are no indented sub-items and have
\* something after their marker
TopLevelLines(text) ==
    IF text = NullText THEN <<>>
    ELSE SelectSeq(Lines(text),
                   LAMBDA line : ~IsIndentedBullet(line) /\ CleanLine(line) # <<>>)

(* C6: an indented sub-item produces no record, so each bucket has exactly
   one record per top-level line, the k-th record coming from the k-th
   top-level line. *)
C6_IndentedDiscarded ==
    Returned =>
        /\ Len(morningBullets) = Len(TopLevelLines(morning))
        /\ \A k \in 1..Len(morningBullets) :
              morningBullets[k].rawText = CleanLine(TopLevelLines(morning)[k])

-----------------------------------------------------------------------------
(* SpecGrammar: parseTimeString called on the strings of the two forms and
   on strings of neither form *)

\* the largest hour and minute numbers written in the strings
MaxHour == 25
MaxMinute == 61

Meridiems == {<<"a", "m">>, <<"p", "m">>, <<"A", "M">>, <<"P", "M">>}

IsPM(mer) == mer[1] \in {"p", "P"}

\* the hour as written: plain, or padded to two digits
HourStr(h, style) == IF style = "padded" THEN Pad2(h) ELSE NumStr(h)

\* H[:MM](am|pm); m = -1 leaves the minutes out, style "spaced" puts a
\* blank before the meridiem
Str12(h, m, mer, style) ==
    HourStr(h, style)
    \o (IF m = -1 THEN <<>> ELSE <<":">> \o Pad2(m))
    \o (IF style = "spaced" THEN <<" ">> ELSE <<>>)
    \o mer

\* HH:MM
Str24(h, m, style) == HourStr(h, style) \o <<":">> \o Pad2(m)

\* strings of neither form
OtherStrings ==
    {<<>>, <<"9">>, <<"1", "4">>, <<"9", "3", "0">>, <<"9", ":", "5">>,
     <<"9", ":", "5", "a", "m">>, <<"1", "2", "3", "a", "m">>,
     <<"1", "2", "3", ":", "0", "0">>, <<"9", ":", "3", "0", "0">>,
     <<"9", ":", "3", "0", ":", "0", "0">>, <<"a", "m">>, <<"9", "x", "m">>,
     <<"x", "9", "a", "m">>, <<"9", "a", "m", "x">>, <<" ", "9", "a", "m">>,
     <<"9", "a", "m", " ">>, <<"9", "-", "1", "1", "a", "m">>,
     <<"9", ".", "3", "0", "a", "m">>, <<"9", "a">>, <<"9", ":", "a", "m">>,
     <<"1", "4", ":", "0", "0", " ", "-">>, <<"n", "o", "o", "n">>}

TimeStrings ==
    {[form |-> "12", h |-> h, m |-> m, mer |-> mer, text |-> Str12(h, m, mer, style)] :
        h \in 0..MaxHour, m \in -1..MaxMinute, mer \in Meridiems,
        style \in {"plain", "padded", "spaced"}}
    \cup
    {[form |-> "24", h |-> h, m |-> m, mer |-> <<>>, text |-> Str24(h, m, style)] :
        h \in 0..MaxHour, m \in 0..MaxMinute, style \in {"plain", "padded"}}
    \cup
    {[form |-> "other", h |-> 0, m |-> 0, mer |-> <<>>, text |-> t] : t \in OtherStrings}

InitGrammar ==
    /\ Idle
    /\ morning = NullText /\ afternoon = NullText /\ night = NullText
    /\ date = DefaultDate
    /\ halfUp = TRUE
    /\ timeStr \in TimeStrings
    /\ written = NotWritten

\* a direct call parseTimeString(timeStr)
ParseTimeStringCall ==
    /\ pc = "start"
    /\ timeStr.form # "none"
    /\ timeOut' = parseTimeString(timeStr.text)
    /\ pc' = "parsed"
    /\ UNCHANGED <<morning, afternoon, night, date, halfUp,
                   morningBullets, afternoonBullets, nightBullets, all, timeStr,
                   written, time, found, earlier, shown, label, formVars, debounceVars>>

NextGrammar == ParseTimeStringCall

SpecGrammar == InitGrammar /\ [][NextGrammar]_vars

\* the hour of the 24-hour clock for the hour h of the 12-hour clock
Hour24(h, mer) ==
    IF IsPM(mer) THEN (IF h = 12 THEN 12 ELSE h + 12)
    ELSE (IF h = 12 THEN 0 ELSE h)

\* the 12-hour string for a 24-hour clock time
Equivalent12(h, m) ==
    Str12(IF h % 12 = 0 THEN 12 ELSE h % 12, m,
          IF h >= 12 THEN <<"p", "m">> ELSE <<"a", "m">>, "plain")

(* C9: a 12-hour string H[:MM](am|pm) is accepted iff 1 <= H <= 12 and
   0 <= MM <= 59 and gives hour H+12 for pm (12 for 12pm), H for am (0 for
   12am); a 24-hour string HH:MM is accepted iff 0 <= HH <= 23 and
   0 <= MM <= 59; every other string gives no match; so a 24-hour string
   and the equivalent 12-hour string give the same TimeOfDay. *)
C9_TimeStringGrammar ==
    pc = "parsed" =>
        /\ timeStr.form = "12" =>
              timeOut = IF timeStr.h >= 1 /\ timeStr.h <= 12 /\ timeStr.m <= 59
                        THEN TimeOfDay(Hour24(timeStr.h, timeStr.mer),
                                       IF timeStr.m = -1 THEN 0 ELSE timeStr.m)
                        ELSE NoTime
        /\ timeStr.form = "24" =>
              /\ timeOut = IF timeStr.h <= 23 /\ timeStr.m <= 59
                           THEN TimeOfDay(timeStr.h, timeStr.m)
                           ELSE NoTime
              /\ timeOut # NoTime =>
                    timeOut = parseTimeString(Equivalent12(timeStr.h, timeStr.m))
        /\ timeStr.form = "other" => timeOut = NoTime

\* 12:30am parsed to 0:30
C9_Witness ==
    /\ pc = "parsed"
    /\ timeStr.form = "12" /\ timeStr.h = 12 /\ timeStr.m = 30 /\ ~IsPM(timeStr.mer)
    /\ timeOut = TimeOfDay(0, 30)

-----------------------------------------------------------------------------
(* SpecInterp: parseEntry on one bucket made of lines without a time around
   up to two lines with a time *)

\* the largest number of lines without a time before, between and after
\* the lines with a time; there are at most MaxGap + 1 of them in all
MaxGap == 2

PlainLine == <<"-", " ", "x">>

\* lines with a time: prefixes in each form, and a time inside the text
AnchorLines ==
    {<<"5", "a", "m", " ", "x">>,
     <<"8", "a", "m", " ", "x">>,
     <<"8", ":", "0", "1", "a", "m", " ", "-", " ", "x">>,
     <<"8", ":", "0", "3", "a", "m", " ", "x">>,
     <<"9", "-", "1", "1", "a", "m", " ", "y">>,
     <<"2", "p", "m", ":", " ", "x">>,
     <<"7", "p", "m", "-", "1", "0", "p", "m", " ", "y">>,
     <<"-", " ", "a", "t", " ", "1", "0", " ", "z">>}

NoLine == <<>>

\* k lines without a time
PlainLines(k) == [i \in 1..k |-> PlainLine]

\* the lines of the bucket: b plain, a1, g plain, a2, a plain (NoLine left out)
InterpLines(b, a1, g, a2, a) ==
    PlainLines(b) \o (IF a1 = NoLine THEN <<>> ELSE <<a1>>)
    \o PlainLines(g) \o (IF a2 = NoLine THEN <<>> ELSE <<a2>>)
    \o PlainLines(a)

TextOfLines(lines) == IF lines = <<>> THEN NullText ELSE JoinLines(lines)

\* the entry with the given text in one section and nothing in the others
OnlySection(section, text) ==
    /\ morning = (IF section = "morning" THEN text ELSE NullText)
    /\ afternoon = (IF section = "afternoon" THEN text ELSE NullText)
    /\ night = (IF section = "night" THEN text ELSE NullText)

InitInterp ==
    /\ Idle
    /\ \E section \in Sections, b \in 0..MaxGap, g \in 0..MaxGap, a \in 0..MaxGap,
          a1 \in AnchorLines \cup {NoLine}, a2 \in AnchorLines \cup {NoLine} :
          /\ b + g + a <= MaxGap + 1
          /\ OnlySection(section, TextOfLines(InterpLines(b, a1, g, a2, a)))
    /\ date = DefaultDate
    /\ halfUp \in BOOLEAN
    /\ timeStr = NoTimeStr
    /\ written = NotWritten

SpecInterp == InitInterp /\ [][Next]_vars

\* the text and the returned bullets of a section
TextOf(section) ==
    IF section = "morning" THEN morning
    ELSE IF section = "afternoon" THEN afternoon ELSE night

BulletsOf(section) ==
    IF section = "morning" THEN morningBullets
    ELSE IF section = "afternoon" THEN afternoonBullets ELSE nightBullets

\* the bullets of a section as they are before interpolateTimes
Before(section) == Assembled(TextOf(section), section, EntryDate(date), 0)

\* a clock time in minutes
Clock(t) == t.hours * 60 + t.minutes

\* the anchors p < q of the bullets asm that have records and no anchor between
GapsOf(anchors) ==
    {pq \in anchors \X anchors :
        /\ pq[1] + 1 < pq[2]
        /\ \A i \in (pq[1] + 1)..(pq[2] - 1) : i \notin anchors}

Gaps(section) == GapsOf(Anchors(Before(section)))

\* the clock times, in minutes, of the returned records of a section
Times(section) ==
    [i \in 1..Len(BulletsOf(section)) |-> Clock(BulletsOf(section)[i].timeStart)]

TimeAt(section, i) == Clock(BulletsOf(section)[i].timeStart)

StrictlyBetween(t, a, b) == (a < t /\ t < b) \/ (b < t /\ t < a)

RangeStart(section) == SECTION_RANGES[section].start * 60
RangeEnd(section) == SECTION_RANGES[section].end * 60

(* C2: a record whose line has a prefix time ends with the timeStart, the
   timeEnd and the window parsed from that line alone, whatever the other
   lines are, and interpolation changes neither the timeStart nor the
   estimatedTimeRange of any record that had a time (an anchor). *)
C2_AnchorsKept ==
    Returned =>
        \A section \in Sections :
            LET bullets == BulletsOf(section)
                before == Before(section)
            IN  \A i \in 1..Len(bullets) :
                LET prefix == extractTimePrefix(bullets[i].rawText)
                IN  /\ prefix.startTime # NoTime =>
                          /\ bullets[i].timeStart = prefix.startTime
                          /\ bullets[i].timeEnd = prefix.endTime
                          /\ bullets[i].estimatedTimeRange =
                                OneHourFrom(SetHours(EntryDate(date),
                                                     prefix.startTime.hours,
                                                     prefix.startTime.minutes))
                    /\ before[i].timeStart # NoTime =>
                          /\ bullets[i].timeStart = before[i].timeStart
                          /\ bullets[i].estimatedTimeRange = before[i].estimatedTimeRange

\* a range prefix between two lines without a time, in the morning
C2_Witness ==
    /\ Returned
    /\ Len(morningBullets) = 3
    /\ Anchors(Before("morning")) = {2}
    /\ morningBullets[2].timeStart = TimeOfDay(9, 0)
    /\ morningBullets[2].timeEnd = TimeOfDay(11, 0)

(* C4 as claimed: every record between two consecutive anchors has a time
   strictly between the anchors' times, and the times of a gap increase in
   line order, for any pair of anchor times. *)
C4_StrictlyBetweenAnyAnchors ==
    Returned =>
        \A section \in Sections :
            LET t == Times(section)
            IN  \A pq \in Gaps(section) : \A i \in (pq[1] + 1)..(pq[2] - 1) :
                    /\ StrictlyBetween(t[i], t[pq[1]], t[pq[2]])
                    /\ i + 1 < pq[2] => t[i] < t[i + 1]

(* C4 amended: every record between two consecutive anchors has a time
   between the anchors' times, ends included; when the gap holds k records
   and the second anchor is at least k+1 minutes later than the first, the
   time is strictly between them and the times of the gap are strictly
   increasing in line order; when the second anchor is not earlier than the
   first they never decrease. *)
C4_BetweenAnchors ==
    Returned =>
        \A section \in Sections :
            LET t == Times(section)
            IN  \A pq \in Gaps(section) : \A i \in (pq[1] + 1)..(pq[2] - 1) :
                LET ta == t[pq[1]]
                    tb == t[pq[2]]
                    wide == tb - ta >= pq[2] - pq[1]
                IN  /\ (ta <= t[i] /\ t[i] <= tb) \/ (tb <= t[i] /\ t[i] <= ta)
                    /\ wide => ta < t[i] /\ t[i] < tb
                    /\ i + 1 < pq[2] =>
                          /\ wide => t[i] < t[i + 1]
                          /\ ta <= tb => t[i] <= t[i + 1]

\* two records between 8am and 2pm in the morning
C4_Witness ==
    /\ Returned
    /\ Gaps("morning") = {<<1, 4>>}
    /\ TimeAt("morning", 1) = 8 * 60
    /\ TimeAt("morning", 4) = 14 * 60
    /\ TimeAt("morning", 2) < TimeAt("morning", 3)

(* C5 as claimed: a record before the first anchor has a time at or after
   the range start and strictly before the anchor's time, a record after
   the last anchor a time strictly after the anchor's time and strictly
   before the range end, for any anchor time. *)
C5_ExtrapolatedInRangeAnyAnchor ==
    Returned =>
        \A section \in Sections :
            LET anchors == Anchors(Before(section))
                t == Times(section)
            IN  anchors # {} =>
                \A i \in 1..Len(t) :
                    /\ i < FirstAnchor(anchors) =>
                          /\ RangeStart(section) <= t[i]
                          /\ t[i] < t[FirstAnchor(anchors)]
                    /\ i > LastAnchor(anchors) =>
                          /\ t[LastAnchor(anchors)] < t[i]
                          /\ t[i] < RangeEnd(section)

(* C5 amended: when the first anchor's time is at least c+1 minutes after
   the range start, c being the number of records before it, each of them
   has a time after the range start and strictly before the anchor's time;
   when the last anchor's time is at least c+1 minutes before the range
   end, c being the number of records after it, each of them has a time
   strictly after the anchor's time and strictly before the range end. *)
C5_ExtrapolatedInRange ==
    Returned =>
        \A section \in Sections :
            LET anchors == Anchors(Before(section))
                t == Times(section)
            IN  anchors # {} =>
                \A i \in 1..Len(t) :
                    /\ (/\ i < FirstAnchor(anchors)
                        /\ t[FirstAnchor(anchors)] - RangeStart(section)
                              >= FirstAnchor(anchors)) =>
                          /\ RangeStart(section) < t[i]
                          /\ t[i] < t[FirstAnchor(anchors)]
                    /\ (/\ i > LastAnchor(anchors)
                        /\ RangeEnd(section) - t[LastAnchor(anchors)]
                              >= Len(t) - LastAnchor(anchors) + 1) =>
                          /\ t[LastAnchor(anchors)] < t[i]
                          /\ t[i] < RangeEnd(section)

\* two records before and one after the 7pm-10pm line of the night
C5_Witness ==
    /\ Returned
    /\ Anchors(Before("night")) = {3}
    /\ Len(nightBullets) = 4
    /\ TimeAt("night", 3) = 19 * 60
    /\ TimeAt("night", 2) < 19 * 60
    /\ TimeAt("night", 2) > 18 * 60
    /\ TimeAt("night", 4) > 19 * 60

-----------------------------------------------------------------------------
(* SpecEven: parseEntry on one bucket of lines without a time, a few of them
   or about as many as the bucket's range has minutes *)

\* the largest small number of lines
MaxEvenLines == 8

\* the minutes of a section's range
RangeMinutes(section) ==
    (SECTION_RANGES[section].end - SECTION_RANGES[section].start) * 60

\* the numbers of lines: small ones, and those around one line a minute
EvenCounts(section) ==
    (1..MaxEvenLines) \cup {RangeMinutes(section) - 1, RangeMinutes(section)}

InitEven ==
    /\ Idle
    /\ \E section \in Sections :
          \E n \in EvenCounts(section) :
              OnlySection(section, TextOfLines(PlainLines(n)))
    /\ date \in Dates
    /\ halfUp \in BOOLEAN
    /\ timeStr = NoTimeStr
    /\ written = NotWritten

SpecEven == InitEven /\ [][Next]_vars

\* no line of the section has a time
NoAnchors(section) == Anchors(Before(section)) = {}

\* t is num / den rounded to the nearest integer, a half going either way
Nearest(t, num, den) ==
    /\ 2 * (t * den - num) <= den
    /\ 2 * (num - t * den) <= den

\* the i-th of n records is at start + step * i, step = (end - start) / (n + 1),
\* rounded to the minute
EvenlySpread(section, t) ==
    \A i \in 1..Len(t) :
        Nearest(t[i], RangeStart(section) * (Len(t) + 1) + RangeMinutes(section) * i,
                Len(t) + 1)

(* C3 as claimed: in a bucket without a time, for every n >= 1, the times
   of the n records are strictly increasing in line order and strictly
   inside the bucket's range, the i-th being start + step*(i+1),
   step = (end-start)/(n+1), rounded to the minute. *)
C3_EvenStrictAnyCount ==
    Returned =>
        \A section \in Sections :
            LET t == Times(section)
            IN  (Len(t) >= 1 /\ NoAnchors(section)) =>
                /\ EvenlySpread(section, t)
                /\ \A i \in 1..Len(t) :
                      /\ RangeStart(section) < t[i] /\ t[i] < RangeEnd(section)
                      /\ i < Len(t) => t[i] < t[i + 1]

(* C3 amended: in a bucket without a time the i-th of the n records is at
   start + step*(i+1), step = (end-start)/(n+1), rounded to the minute, for
   every n >= 1; the times never decrease and lie within the range, ends
   included; when n+1 is at most the number of minutes of the range they
   are strictly increasing and strictly inside the range. *)
C3_EvenlySpread ==
    Returned =>
        \A section \in Sections :
            LET t == Times(section)
            IN  (Len(t) >= 1 /\ NoAnchors(section)) =>
                /\ EvenlySpread(section, t)
                /\ \A i \in 1..Len(t) :
                      /\ RangeStart(section) <= t[i] /\ t[i] <= RangeEnd(section)
                      /\ i < Len(t) => t[i] <= t[i + 1]
                /\ Len(t) + 1 <= RangeMinutes(section) =>
                      \A i \in 1..Len(t) :
                          /\ RangeStart(section) < t[i] /\ t[i] < RangeEnd(section)
                          /\ i < Len(t) => t[i] < t[i + 1]

\* one record a minute in the night: 299 records, the last at 22:59
C3_Witness ==
    /\ Returned
    /\ NoAnchors("night")
    /\ Len(nightBullets) = RangeMinutes("night") - 1
    /\ nightBullets[1].timeStart = TimeOfDay(18, 1)
    /\ nightBullets[Len(nightBullets)].timeStart = TimeOfDay(22, 59)

-----------------------------------------------------------------------------
(* SpecRating: parseEntry on one bucket whose first line holds a rating N/M *)

\* the largest number written in a rating
MaxRating == 13

\* what comes before the rating in its line
RatingLeads == {<<"-", " ", "r", "a", "t", "e", "d", " ", "i", "t", " ">>, <<>>}

RatingLine(lead, n, m) == lead \o NumStr(n) \o <<"/">> \o NumStr(m)

InitRating ==
    /\ Idle
    /\ \E section \in Sections, lead \in RatingLeads,
          n \in 0..MaxRating, m \in 0..MaxRating, a \in 0..1 :
          /\ OnlySection(section,
                         TextOfLines(<<RatingLine(lead, n, m)>> \o PlainLines(a)))
          /\ written = Written("rating", n, -1, m, -1, <<>>, <<>>)
    /\ date = DefaultDate
    /\ halfUp = TRUE
    /\ timeStr = NoTimeStr

SpecRating == InitRating /\ [][Next]_vars

\* the section that has the text
Filled(section) == TextOf(section) # NullText

\* a rating was written in the first line and the call has returned
RatingParsed == Returned /\ written.kind = "rating"

(* C7: a line with a rating N/M does not resolve to the hour N, and the
   time its record ends up with lies within [start, end) of its bucket, in
   each bucket and for every N and M. *)
C7_RatingWithinRange ==
    RatingParsed =>
        \A section \in {x \in Sections : Filled(x)} :
            /\ Before(section)[1].timeStart # NoTime =>
                  Before(section)[1].timeStart.hours % 12 # written.h1 % 12
            /\ RangeStart(section) <= TimeAt(section, 1)
            /\ TimeAt(section, 1) < RangeEnd(section)

(* C8: for a line whose only numbers are a rating N/M the embedded-time
   extractor resolves no time, the record is no anchor, and its time is the
   interpolated one. *)
C8_RatingNoTime ==
    RatingParsed =>
        \A section \in {x \in Sections : Filled(x)} :
            /\ extractTimeFromText(BulletsOf(section)[1].rawText, section) = NoTime
            /\ 1 \notin Anchors(Before(section))
            /\ EvenlySpread(section, Times(section))

-----------------------------------------------------------------------------
(* SpecRange: parseEntry on a morning whose line starts with a range
   H1[:MM]-H2[:MM](am|pm) *)

\* the largest hour written in a range
MaxRangeHour == 13

\* the minutes of the two bounds; -1 leaves them out
RangeMinuteForms == {<<-1, -1>>, <<30, -1>>, <<-1, 30>>, <<30, 45>>, <<60, -1>>, <<-1, 60>>}

RangeMeridiems == {<<"a", "m">>, <<"P", "M">>}

\* the hyphen between the bounds and the separator after the meridiem
RangeStyles ==
    {[hyphen |-> <<"-">>, sep |-> <<" ">>],
     [hyphen |-> <<" ", "-", " ">>, sep |-> <<" ", "-", " ">>],
     [hyphen |-> <<"-">>, sep |-> <<":", " ">>]}

\* the texts after the range
RangeTails == {<<>>, <<"x", " ", "y">>}

\* [H]H or [H]H:MM
BoundStr(h, m) == NumStr(h) \o (IF m = -1 THEN <<>> ELSE <<":">> \o Pad2(m))

RangeLine(h1, m1, h2, m2, mer, style, tail) ==
    BoundStr(h1, m1) \o style.hyphen \o BoundStr(h2, m2) \o mer \o style.sep \o tail

InitRange ==
    /\ Idle
    /\ \E h1 \in 0..MaxRangeHour, h2 \in 0..MaxRangeHour, mm \in RangeMinuteForms,
          mer \in RangeMeridiems, style \in RangeStyles, tail \in RangeTails :
          /\ OnlySection("morning",
                         RangeLine(h1, mm[1], h2, mm[2], mer, style, tail))
          /\ written = Written("range", h1, mm[1], h2, mm[2], mer, tail)
    /\ date = DefaultDate
    /\ halfUp = TRUE
    /\ timeStr = NoTimeStr

SpecRange == InitRange /\ [][Next]_vars

\* a range was written in the line and the call has returned
RangeParsed == Returned /\ written.kind = "range"

\* H[:MM] is a time of the 12-hour clock
Valid12(h, m) == h >= 1 /\ h <= 12 /\ m <= 59

\* H[:MM] read with the meridiem
Read12(h, m, mer) == TimeOfDay(Hour24(h, mer), IF m = -1 THEN 0 ELSE m)

\* both bounds of the written range are times of the 12-hour clock
ValidRange == Valid12(written.h1, written.m1) /\ Valid12(written.h2, written.m2)

(* C10 as claimed: for a line that starts with a shared-meridiem range,
   timeStart is H1[:MM] and timeEnd is H2[:MM], both read with the trailing
   meridiem, and text is the text that follows the range. *)
C10_SharedRangeTextFollows ==
    (RangeParsed /\ ValidRange) =>
        /\ morningBullets[1].timeStart = Read12(written.h1, written.m1, written.mer)
        /\ morningBullets[1].timeEnd = Read12(written.h2, written.m2, written.mer)
        /\ morningBullets[1].text = written.tail

(* C10 amended: for a line that starts with a shared-meridiem range whose
   bounds are times of the 12-hour clock (1 <= H <= 12, MM <= 59),
   timeStart is H1[:MM] and timeEnd is H2[:MM], both read with the trailing
   meridiem; text is the text that follows the range and its separator
   when there is such text, and the whole line otherwise; a second bound
   that is no time of the 12-hour clock gives no timeEnd. *)
C10_SharedRange ==
    RangeParsed =>
        /\ Len(morningBullets) = 1
        /\ ValidRange =>
              /\ morningBullets[1].timeStart =
                    Read12(written.h1, written.m1, written.mer)
              /\ morningBullets[1].timeEnd =
                    Read12(written.h2, written.m2, written.mer)
        /\ ~Valid12(written.h2, written.m2) => morningBullets[1].timeEnd = NoTime
        /\ morningBullets[1].text =
              IF written.tail # <<>> THEN written.tail ELSE morningBullets[1].rawText

\* 9:30 - 11PM - x y: from 21:30 to 23:00, text x y
C10_Witness ==
    /\ RangeParsed
    /\ written.h1 = 9 /\ written.m1 = 30 /\ written.h2 = 11 /\ written.m2 = -1
    /\ IsPM(written.mer)
    /\ Len(morning) = 17
    /\ morningBullets[1].timeStart = TimeOfDay(21, 30)
    /\ morningBullets[1].timeEnd = TimeOfDay(23, 0)
    /\ morningBullets[1].text = <<"x", " ", "y">>

-----------------------------------------------------------------------------
(* SpecPrefix: parseEntry on an afternoon whose line starts with a full
   range, a single time with meridiem or a 24-hour time, then a separator
   and text *)

\* the largest hour written in a prefix
MaxPrefixHour == 24

\* minutes written with a meridiem (-1: left out) and in a 24-hour time
Minutes12 == {-1, 30, 60}
Minutes24 == {0, 30, 60}

LowerMeridiems == {<<"a", "m">>, <<"p", "m">>}

\* the second bounds of the full ranges
FullEndHours == {2, 12, 13}

\* what stands between the time and the text
SpaceSep == <<" ">>
HyphenSep == <<" ", "-", " ">>
ColonSep == <<":", " ">>
DashSep == <<" ", ENDASH, " ">>
PrefixSeps == {SpaceSep, HyphenSep, ColonSep, DashSep}

\* the texts after the separator: none, plain text, text that starts with
\* the letters of a meridiem, text that starts with a time
PlainTail == <<"x", " ", "y">>
MeridiemTail == <<"a", "m", "a", "z", "i", "n", "g">>
TimeTail == <<"3", "p", "m", " ", "y">>
PrefixTails == {<<>>, PlainTail, MeridiemTail, TimeTail}

\* how a prefix line was written
WrittenPrefix(kind, h1, m1, mer1, h2, m2, mer2, sep, tail) ==
    [kind |-> kind, h1 |-> h1, m1 |-> m1, mer |-> mer1,
     h2 |-> h2, m2 |-> m2, mer2 |-> mer2, sep |-> sep, tail |-> tail]

\* the heads of the lines of each kind, with how they are written
PrefixHeads ==
    {[text |-> BoundStr(h, m) \o mer,
      as |-> WrittenPrefix("single", h, m, mer, 0, -1, <<>>, <<>>, <<>>)] :
        h \in 0..MaxPrefixHour, m \in Minutes12, mer \in RangeMeridiems}
    \cup
    {[text |-> BoundStr(h, m),
      as |-> WrittenPrefix("24", h, m, <<>>, 0, -1, <<>>, <<>>, <<>>)] :
        h \in 0..MaxPrefixHour, m \in Minutes24}
    \cup
    {[text |-> BoundStr(h1, -1) \o mer1 \o <<"-">> \o BoundStr(h2, -1) \o mer2,
      as |-> WrittenPrefix("full", h1, -1, mer1, h2, -1, mer2, <<>>, <<>>)] :
        h1 \in 0..MaxPrefixHour, mer1 \in LowerMeridiems,
        h2 \in FullEndHours, mer2 \in LowerMeridiems}

InitPrefix ==
    /\ Idle
    /\ \E head \in PrefixHeads, sep \in PrefixSeps, tail \in PrefixTails :
          /\ OnlySection("afternoon", head.text \o sep \o tail)
          /\ written = [head.as EXCEPT !.sep = sep, !.tail = tail]
    /\ date = DefaultDate
    /\ halfUp = TRUE
    /\ timeStr = NoTimeStr

SpecPrefix == InitPrefix /\ [][Next]_vars

\* a prefix line of the kind was written and the call has returned
PrefixParsed(kind) == Returned /\ written.kind = kind

\* the single time and its text make a full range (H(am|pm) - 3pm)
SingleIsFullRange ==
    written.sep \in {HyphenSep, DashSep} /\ written.tail = TimeTail

\* the 24-hour time and its text make a shared-meridiem range (HH:MM - 3pm)
Time24IsSharedRange == written.sep = HyphenSep /\ written.tail = TimeTail

\* the 24-hour time and its text make a single time with meridiem (HH:MM am)
Time24IsSingle == written.sep = SpaceSep /\ written.tail = MeridiemTail

\* the time of TimeTail
TimeTailTime == TimeOfDay(15, 0)

(* C11 as claimed: the four forms are tried in the fixed order; a
   cross-meridiem range gives both of its bounds, and a line that starts
   with a valid 24-hour time HH:MM followed by a separator and free text
   gives that time as timeStart. *)
C11_PrefixOrderAnyText ==
    /\ (PrefixParsed("full") /\ Valid12(written.h1, written.m1)
                             /\ Valid12(written.h2, written.m2)) =>
          /\ afternoonBullets[1].timeStart = Read12(written.h1, written.m1, written.mer)
          /\ afternoonBullets[1].timeEnd = Read12(written.h2, written.m2, written.mer2)
    /\ (PrefixParsed("24") /\ Valid24(written.h1, written.m1)) =>
          afternoonBullets[1].timeStart = TimeOfDay(written.h1, written.m1)

(* C11 amended: the four forms are tried in the fixed order and the first
   one the line has gives the result.  A full range gives both of its
   bounds, each read with its own meridiem.  A single time with meridiem
   gives that time and no timeEnd, unless the text after a hyphen or en
   dash starts with a time with meridiem: then the line is a full range
   and that time is its timeEnd.  A valid 24-hour time HH:MM followed by a
   separator and text gives that time as timeStart and no timeEnd, unless
   the text starts with a meridiem after white space only (the line is then
   a single time with meridiem) or with a time with meridiem after a hyphen
   (the line is then a shared-meridiem range with that time as timeEnd). *)
C11_PrefixOrder ==
    /\ (PrefixParsed("full") /\ Valid12(written.h1, written.m1)
                             /\ Valid12(written.h2, written.m2)) =>
          /\ afternoonBullets[1].timeStart = Read12(written.h1, written.m1, written.mer)
          /\ afternoonBullets[1].timeEnd = Read12(written.h2, written.m2, written.mer2)
    /\ (PrefixParsed("single") /\ Valid12(written.h1, written.m1)) =>
          /\ afternoonBullets[1].timeStart = Read12(written.h1, written.m1, written.mer)
          /\ afternoonBullets[1].timeEnd =
                IF SingleIsFullRange THEN TimeTailTime ELSE NoTime
    /\ (PrefixParsed("24") /\ Valid24(written.h1, written.m1)) =>
          /\ (~Time24IsSharedRange /\ ~Time24IsSingle) =>
                /\ afternoonBullets[1].timeStart = TimeOfDay(written.h1, written.m1)
                /\ afternoonBullets[1].timeEnd = NoTime
          /\ (Time24IsSharedRange /\ Valid12(written.h1, written.m1)) =>
                /\ afternoonBullets[1].timeStart =
                      Read12(written.h1, written.m1, <<"p", "m">>)
                /\ afternoonBullets[1].timeEnd = TimeTailTime
          /\ (Time24IsSingle /\ Valid12(written.h1, written.m1)) =>
                afternoonBullets[1].timeStart =
                    Read12(written.h1, written.m1, <<"a", "m">>)

\* 9am-2pm - x y: from 9:00 to 14:00
C11_Witness ==
    /\ PrefixParsed("full")
    /\ written.h1 = 9 /\ written.h2 = 2 /\ written.tail = PlainTail
    /\ afternoonBullets[1].timeStart = TimeOfDay(9, 0)
    /\ afternoonBullets[1].timeEnd = TimeOfDay(14, 0)

\* the text after the time expression of the written line and its separator
RemainingText ==
    IF written.kind = "single" /\ SingleIsFullRange THEN <<"y">>
    ELSE IF written.kind = "24" /\ Time24IsSharedRange THEN <<"y">>
    ELSE IF written.kind = "24" /\ Time24IsSingle THEN <<"a", "z", "i", "n", "g">>
    ELSE written.tail

\* a prefix line of any kind was written and the call has returned
AnyPrefixParsed == Returned /\ written.kind \in {"single", "24", "full"}

(* C12 as claimed: for every line that matches a prefix form, text is the
   remaining text after the time expression and its optional separator,
   whatever that text is, and rawText is the normalized line. *)
C12_TextIsRemainingAnyText ==
    AnyPrefixParsed =>
        /\ afternoonBullets[1].text = RemainingText
        /\ afternoonBullets[1].rawText = Trim(afternoon)

(* C12 amended: for every line that matches a prefix form, text is the
   remaining text after the time expression and its optional separator
   when that text is not empty, and the whole normalized line when nothing
   remains; rawText is the normalized line in both cases. *)
C12_TextIsRemaining ==
    AnyPrefixParsed =>
        /\ Len(afternoonBullets) = 1
        /\ afternoonBullets[1].text =
              IF RemainingText # <<>> THEN RemainingText ELSE Trim(afternoon)
        /\ afternoonBullets[1].rawText = Trim(afternoon)

\* 9am - x y: text x y, rawText the line
C12_Witness ==
    /\ PrefixParsed("single")
    /\ afternoon = <<"9", "a", "m", " ", "-", " ", "x", " ", "y">>
    /\ afternoonBullets[1].text = PlainTail
    /\ afternoonBullets[1].rawText = afternoon

\* the time of the record's line comes from the embedded-time extractor
FromEmbedded(bullet) ==
    /\ extractTimePrefix(bullet.rawText).startTime = NoTime
    /\ extractTimeFromText(bullet.rawText, bullet.section) # NoTime

(* C13: a record whose time comes from the embedded-time extractor (its
   line has no prefix time) has timeStart set, no timeEnd, and the cleaned
   line as text; timeEnd is set only on records whose timeStart came from
   a parsed prefix range. *)
C13_EmbeddedKeepsLine ==
    Returned =>
        \A i \in 1..Len(all) :
            /\ FromEmbedded(all[i]) =>
                  /\ all[i].timeStart = extractTimeFromText(all[i].rawText, all[i].section)
                  /\ all[i].timeEnd = NoTime
                  /\ all[i].text = all[i].rawText
            /\ all[i].timeEnd # NoTime =>
                  extractTimePrefix(all[i].rawText).startTime = all[i].timeStart

-----------------------------------------------------------------------------
(* SpecEmbedded: parseEntry on one bucket whose line has a time inside its
   text: a bare H[:MM], or H[:MM] with a meridiem *)

\* the largest hour written inside the text
MaxEmbeddedHour == 13

\* the minutes written inside the text; -1 leaves them out
EmbeddedMinutes == {-1, 5, 30, 60}

\* what comes before a bare time and after it
BareLeads ==
    {<<"-", " ", "a", "t", " ">>,
     <<"-", " ", "w", "o", "k", "e", " ", "u", "p", " ", "a", "t", " ">>}
BareTails == {<<>>, <<" ", "z">>, <<".">>}

\* what comes before a time with meridiem and after it: text with and
\* without a bare number
ExplicitLeads ==
    {<<"-", " ", "c", "a", "l", "l", " ", "a", "t", " ">>,
     <<"-", " ", "r", "o", "o", "m", " ", "5", " ", "a", "t", " ">>}
ExplicitTails == {<<>>, <<" ", "z">>, <<" ", "t", "h", "e", "n", " ", "3">>}

\* the lines with how they are written
EmbeddedLines ==
    {[text |-> lead \o BoundStr(h, m) \o tail,
      as |-> Written("bare", h, m, 0, -1, <<>>, tail)] :
        lead \in BareLeads, h \in 0..MaxEmbeddedHour, m \in EmbeddedMinutes,
        tail \in BareTails}
    \cup
    {[text |-> lead \o Str12(h, m, mer, style) \o tail,
      as |-> Written("explicit", h, m, 0, -1, mer, tail)] :
        lead \in ExplicitLeads, h \in 0..MaxEmbeddedHour, m \in EmbeddedMinutes,
        mer \in RangeMeridiems, style \in {"plain", "spaced"}, tail \in ExplicitTails}

InitEmbedded ==
    /\ Idle
    /\ \E section \in Sections, line \in EmbeddedLines :
          /\ OnlySection(section, line.text)
          /\ written = line.as
    /\ date = DefaultDate
    /\ halfUp = TRUE
    /\ timeStr = NoTimeStr

SpecEmbedded == InitEmbedded /\ [][Next]_vars

\* a line of the kind was written and the call has returned
EmbeddedParsed(kind) == Returned /\ written.kind = kind

\* the hour H of the 12-hour clock read as AM or PM
InferredHour(h, pm) ==
    IF pm THEN (IF h = 12 THEN 12 ELSE h + 12) ELSE (IF h = 12 THEN 0 ELSE h)

(* C14: for a line with no prefix time and no explicit am/pm token whose
   bare numeric token is H[:MM] with 1 <= H <= 12 and minutes in 0..59,
   timeStart is H:MM read as AM in the morning and as PM in the afternoon
   and night, 12 becoming 0 for AM and staying 12 for PM. *)
C14_BareTimeInferred ==
    (EmbeddedParsed("bare") /\ Valid12(written.h1, written.m1)) =>
        \A section \in {x \in Sections : Filled(x)} :
            /\ Len(BulletsOf(section)) = 1
            /\ BulletsOf(section)[1].timeStart =
                  TimeOfDay(InferredHour(written.h1, section # "morning"),
                            IF written.m1 = -1 THEN 0 ELSE written.m1)

\* at 12:30 in the night gives 12:30
C14_Witness ==
    /\ EmbeddedParsed("bare")
    /\ written.h1 = 12 /\ written.m1 = 30
    /\ Len(nightBullets) = 1
    /\ nightBullets[1].timeStart = TimeOfDay(12, 30)

(* C15: an explicit H[:MM](am|pm) token (1 <= H <= 12, minutes in 0..59)
   anywhere in a line that has no prefix time determines timeStart, in every
   bucket and whatever bare number the line has elsewhere. *)
C15_ExplicitOverBucket ==
    (EmbeddedParsed("explicit") /\ Valid12(written.h1, written.m1)) =>
        \A section \in {x \in Sections : Filled(x)} :
            /\ Len(BulletsOf(section)) = 1
            /\ BulletsOf(section)[1].timeStart =
                  Read12(written.h1, written.m1, written.mer)

\* room 5 at 9am then 3 in the afternoon gives 9:00
C15_Witness ==
    /\ EmbeddedParsed("explicit")
    /\ written.h1 = 9 /\ written.m1 = -1 /\ ~IsPM(written.mer)
    /\ written.tail = <<" ", "t", "h", "e", "n", " ", "3">>
    /\ Len(afternoonBullets) = 1
    /\ afternoonBullets[1].rawText[1] = "r"
    /\ afternoonBullets[1].timeStart = TimeOfDay(9, 0)

-----------------------------------------------------------------------------
(* The estimated time range, checked under SpecInterp: its buckets have
   prefix times, a time inside the text and lines without a time *)

\* the record's time was given by interpolateTimes
FromInterpolation(bullet) ==
    /\ extractTimePrefix(bullet.rawText).startTime = NoTime
    /\ extractTimeFromText(bullet.rawText, bullet.section) = NoTime

(* C16: the estimatedTimeRange of every returned record ends exactly 60
   minutes after it starts, whether the record's time came from a prefix,
   from a time inside the text or from interpolation. *)
C16_RangeIsOneHour ==
    Returned =>
        \A i \in 1..Len(all) :
            all[i].estimatedTimeRange[2] = all[i].estimatedTimeRange[1] + 60

\* a bucket with a prefix range, a time inside the text and a line whose
\* time was interpolated
C16_Witness ==
    /\ Returned
    /\ Len(all) = 3
    /\ \E i, j, k \in 1..3 :
          /\ all[i].timeEnd # NoTime
          /\ FromEmbedded(all[j])
          /\ FromInterpolation(all[k])
          /\ all[k].timeStart # NoTime
          /\ all[k].estimatedTimeRange[2] = all[k].estimatedTimeRange[1] + 60

-----------------------------------------------------------------------------
(* SpecFind: parseEntry on an entry of a few lines, then findBulletsAtTime
   on its records *)

\* the total number of lines of the entry
MaxFindLines == 3

\* the last hour asked for
MaxQueryHour == 13

\* lines whose time ranges overlap, touch and lie apart, and lines without
\* a time
FindLines ==
    {<<"9", "a", "m", " ", "x">>,
     <<"9", ":", "3", "0", "a", "m", " ", "y">>,
     <<"1", "0", "a", "m", " ", "z">>,
     <<"-", " ", "w">>}

\* the times asked for: around every hour from 8 o'clock on
QueryTimes ==
    {SetHours(EntryDate(DefaultDate), h, m) : h \in 8..MaxQueryHour, m \in {0, 1, 30, 59}}

InitFind ==
    /\ Idle
    /\ morning \in TextsUpTo(FindLines, MaxFindLines)
    /\ afternoon \in TextsUpTo({<<"-", " ", "w">>}, 1)
    /\ night = NullText
    /\ date = DefaultDate
    /\ halfUp = TRUE
    /\ timeStr = NoTimeStr
    /\ written = NotWritten

NextFind == Next \/ FindBulletsAtTimeCall(QueryTimes)

SpecFind == InitFind /\ [][NextFind]_vars

\* findBulletsAtTime has returned
Found == pc = "found"

\* the positions in the list of the records of a result
IndexesOf(bullets) == {bullets[k].index + 1 : k \in 1..Len(bullets)}

(* C17: findBulletsAtTime returns exactly the records whose
   estimatedTimeRange contains the time asked for, both ends included, in
   the order of the list; with no such record the result is empty. *)
C17_FindInclusive ==
    Found =>
        /\ \A k \in 1..Len(found) : found[k] = all[found[k].index + 1]
        /\ \A k \in 1..(Len(found) - 1) : found[k].index < found[k + 1].index
        /\ IndexesOf(found) =
              {i \in 1..Len(all) :
                  /\ all[i].estimatedTimeRange[1] <= time
                  /\ time <= all[i].estimatedTimeRange[2]}

\* the time asked for is the end of one record's range and the start of
\* the next one's, and both are returned
C17_Witness ==
    /\ Found
    /\ Len(all) >= 3
    /\ Len(found) = 2
    /\ found[1].estimatedTimeRange[2] = time
    /\ found[2].estimatedTimeRange[1] = time

-----------------------------------------------------------------------------
(* SpecAgain: parseEntry called several times in a row, with the same and
   with other arguments *)

\* the number of calls
MaxCalls == 3

AgainMornings == TextsUpTo({<<"9", "a", "m", " ", "x">>, <<"-", " ", "y">>}, 1)
AgainAfternoons == TextsUpTo({<<"-", " ", "w">>}, 1)
AgainNights == {NullText}

InitAgain ==
    /\ Idle
    /\ morning \in AgainMornings
    /\ afternoon \in AgainAfternoons
    /\ night \in AgainNights
    /\ date \in Dates
    /\ halfUp = TRUE
    /\ timeStr = NoTimeStr
    /\ written = NotWritten

NextAgain == Next \/ CallAgain(AgainMornings, AgainAfternoons, AgainNights, Dates, MaxCalls)

SpecAgain == InitAgain /\ [][NextAgain]_vars

\* the returned result equals that of every earlier call with the same
\* arguments
SameAsEarlier ==
    Returned =>
        \A k \in 1..Len(earlier) :
            earlier[k].args = Arguments => earlier[k].result = Result

(* C18: a parseEntry call returns the result every earlier call with the
   same three texts and the same date returned, whatever calls were made in
   between, and no step of a call changes its date argument. *)
C18_Deterministic ==
    /\ []SameAsEarlier
    /\ [][pc # "done" => date' = date]_vars

\* the third call has the arguments of the first, the second had others,
\* and all three returned records
C18_Witness ==
    /\ Returned
    /\ Len(earlier) = 2
    /\ earlier[1].args = Arguments
    /\ earlier[2].args # Arguments
    /\ earlier[2].args.date # date
    /\ earlier[2].result.all # <<>>
    /\ Len(all) = 2
    /\ earlier[1].result = Result

-----------------------------------------------------------------------------
(* SpecClock: parseEntry on one bucket whose anchors lie at the ends of the
   day and a minute apart, with lines without a time around them *)

\* the largest number of lines without a time in a row
MaxClockGap == 2

ClockAnchors ==
    {<<"1", "2", "a", "m", " ", "x">>,
     <<"1", "0", ":", "5", "9", "p", "m", " ", "x">>,
     <<"1", "1", "p", "m", " ", "x">>,
     <<"1", "1", ":", "5", "8", "p", "m", " ", "x">>,
     <<"2", "3", ":", "5", "9", " ", "x">>,
     <<"1", "1", "p", "m", "-", "1", "1", ":", "5", "9", "p", "m", " ", "y">>}

InitClock ==
    /\ Idle
    /\ \E section \in Sections, b \in 0..MaxClockGap, g \in 0..MaxClockGap,
          a \in 0..MaxClockGap,
          a1 \in ClockAnchors \cup {NoLine}, a2 \in ClockAnchors \cup {NoLine} :
          /\ b + g + a <= MaxClockGap + 1
          /\ OnlySection(section, TextOfLines(InterpLines(b, a1, g, a2, a)))
    /\ date = DefaultDate
    /\ halfUp \in BOOLEAN
    /\ timeStr = NoTimeStr
    /\ written = NotWritten

SpecClock == InitClock /\ [][Next]_vars

\* hours 0..23 and minutes 0..59
ValidClock(t) ==
    /\ t # NoTime
    /\ t.hours \in 0..23
    /\ t.minutes \in 0..59

(* C19: every timeStart of a returned record, interpolated ones included,
   and every timeEnd that is set is a clock value with hours in 0..23 and
   minutes in 0..59. *)
C19_ValidClock ==
    Returned =>
        \A i \in 1..Len(all) :
            /\ ValidClock(all[i].timeStart)
            /\ all[i].timeEnd # NoTime => ValidClock(all[i].timeEnd)

\* the line between 10:59pm and 11pm is at 10:59 and a half, which rounds
\* to 60 minutes and becomes 23:00; a range's end at 23:59 is there too
C19_Witness ==
    /\ Returned
    /\ halfUp
    /\ Len(all) = 3
    /\ all[1].timeStart = TimeOfDay(22, 59)
    /\ FromInterpolation(all[2])
    /\ all[2].timeStart = TimeOfDay(23, 0)
    /\ all[3].timeStart = TimeOfDay(23, 0)
    /\ all[3].timeEnd = TimeOfDay(23, 59)

-----------------------------------------------------------------------------
(* Lines whose time is out of range, checked under SpecRange: its lines
   start with a range whose bounds run over all hours 0..MaxRangeHour *)

(* C20: a line whose time is out of range (here: a range whose first bound
   is no time of the 12-hour clock) yields exactly one record, which is no
   anchor and gets its time from interpolation: alone in the morning it is
   put at 9:00, the middle of the bucket; the empty buckets give empty
   lists. *)
C20_OutOfRangeInterpolated ==
    (RangeParsed /\ ~Valid12(written.h1, written.m1)) =>
        /\ Len(morningBullets) = 1
        /\ afternoonBullets = <<>> /\ nightBullets = <<>>
        /\ Before("morning")[1].timeStart = NoTime
        /\ morningBullets[1].timeStart = TimeOfDay(9, 0)

-----------------------------------------------------------------------------
(* SpecFormat: formatTimeDisplay on every time of the day, then parseEntry
   on a line that starts with the label *)

\* the largest hour and minute formatted
MaxFormatHour == 23
MaxFormatMinute == 59

\* what follows the label in the line
LabelSeparators == {<<" ">>, <<" ", "-", " ">>}
LabelTails == {<<"x">>, <<"3", "p", "m", " ", "y">>}

InitFormat ==
    /\ pc = "format"
    /\ NothingReturned
    /\ shown \in {TimeOfDay(h, m) : h \in 0..MaxFormatHour, m \in 0..MaxFormatMinute}
    /\ morning = NullText /\ afternoon = NullText /\ night = NullText
    /\ date = DefaultDate
    /\ halfUp = TRUE
    /\ timeStr = NoTimeStr
    /\ written = NotWritten

NextFormat == FormatTimeDisplayCall \/ WriteLabelled(LabelSeparators, LabelTails) \/ Next

SpecFormat == InitFormat /\ [][NextFormat]_vars

\* formatTimeDisplay(shown) has returned, shown being a time of the day
Formatted ==
    /\ pc # "format"
    /\ shown.hours \in 0..23 /\ shown.minutes \in 0..59

\* the first position of the character in the string, 0 when it is not there
PosOf(str, ch) == FirstPos({k \in 1..Len(str) : str[k] = ch})

\* the characters of the label before its blank, and after it
BeforeBlank(str) == SubSeq(str, 1, PosOf(str, " ") - 1)
AfterBlank(str) == SubSeq(str, PosOf(str, " ") + 1, Len(str))

\* the decimal number written by the digits
Value(str) == ParseInt(str, 1, Len(str))

(* C21: formatTimeDisplay maps {h, m} with h in 0..23 and m in 0..59 to a
   12-hour label: the hour is h mod 12 with 0 shown as 12, the suffix after
   the blank is AM for h < 12 and PM for h >= 12, and the minutes are
   omitted when m = 0 and otherwise follow a colon as two digits. *)
C21_FormatLabel ==
    Formatted =>
        /\ AfterBlank(label) = (IF shown.hours < 12 THEN <<"A", "M">> ELSE <<"P", "M">>)
        /\ LET clock == BeforeBlank(label)
               colon == PosOf(clock, ":")
               hour == IF colon = 0 THEN clock ELSE SubSeq(clock, 1, colon - 1)
           IN  /\ PosOf(label, " ") # 0
               /\ Len(hour) \in 1..2
               /\ \A k \in 1..Len(hour) : hour[k] \in Digits
               /\ hour[1] # "0"
               /\ Value(hour) \in 1..12
               /\ Value(hour) % 12 = shown.hours % 12
               /\ (colon = 0) = (shown.minutes = 0)
               /\ colon # 0 =>
                     /\ Len(clock) = colon + 2
                     /\ clock[colon + 1] \in Digits /\ clock[colon + 2] \in Digits
                     /\ Value(SubSeq(clock, colon + 1, colon + 2)) = shown.minutes

\* 0:05 is shown as 12:05 AM
C21_Witness ==
    /\ pc = "formatted"
    /\ shown = TimeOfDay(0, 5)
    /\ label = <<"1", "2", ":", "0", "5", " ", "A", "M">>

\* parseEntry has returned for a line that starts with the label of a time
\* of the day
LabelParsed ==
    /\ Returned /\ written.kind = "label"
    /\ shown.hours \in 0..23 /\ shown.minutes \in 0..59

(* C28: a line made of formatTimeDisplay(t), a separator and some text
   resolves through the prefix extractor to timeStart equal to t, for every
   t with hours in 0..23 and minutes in 0..59. *)
C28_FormatThenParse ==
    LabelParsed =>
        \A section \in {x \in Sections : Filled(x)} :
            /\ Len(BulletsOf(section)) = 1
            /\ extractTimePrefix(BulletsOf(section)[1].rawText).startTime = shown
            /\ BulletsOf(section)[1].timeStart = shown

\* 12:05 PM - 3pm y in the night gives 12:05
C28_Witness ==
    /\ LabelParsed
    /\ shown = TimeOfDay(12, 5)
    /\ night = <<"1", "2", ":", "0", "5", " ", "P", "M", " ", "-", " ",
                 "3", "p", "m", " ", "y">>
    /\ Len(nightBullets) = 1
    /\ nightBullets[1].timeStart = TimeOfDay(12, 5)

-----------------------------------------------------------------------------
(* The line normalizer, checked under Spec: its entries have top-level,
   indented, blank and marker-only lines *)

\* the non-blank lines of a text that are no indented sub-items
RetainedLines(text) ==
    IF text = NullText THEN <<>>
    ELSE SelectSeq(Lines(text), LAMBDA line : ~IsIndentedBullet(line))

(* C22: in every bucket the number of records equals the number of its
   non-blank top-level lines, and the k-th record's rawText is the k-th
   such line with the leading bullet glyph and the white space around it
   stripped. *)
C22_OneRecordPerLine ==
    Returned =>
        \A section \in Sections :
            /\ Len(BulletsOf(section)) = Len(RetainedLines(TextOf(section)))
            /\ \A k \in 1..Len(BulletsOf(section)) :
                  BulletsOf(section)[k].rawText =
                      CleanLine(RetainedLines(TextOf(section))[k])

-----------------------------------------------------------------------------
(* Lines for which the prefix extractor gives no start time, checked under
   SpecPrefix: its lines start with single times of all hours 0..MaxPrefixHour *)

(* C23: when extractTimePrefix gives no start time for a record's line, it
   gives no end time and the whole line as rest, and the record's text is
   its rawText; text differs from rawText only on records whose timeStart
   is the start time of the prefix. *)
C23_NoPrefixKeepsLine ==
    Returned =>
        \A i \in 1..Len(all) :
            /\ extractTimePrefix(all[i].rawText).startTime = NoTime =>
                  /\ extractTimePrefix(all[i].rawText).endTime = NoTime
                  /\ extractTimePrefix(all[i].rawText).rest = all[i].rawText
                  /\ all[i].text = all[i].rawText
            /\ all[i].text # all[i].rawText =>
                  /\ extractTimePrefix(all[i].rawText).startTime # NoTime
                  /\ all[i].timeStart = extractTimePrefix(all[i].rawText).startTime

-----------------------------------------------------------------------------
(* Times and ranges of all records, checked under Spec: its entries mix
   lines with and without a time, and its dates are a string and a Date
   object with a time of day of its own *)

\* the first minute of the entry's calendar date
StartOfDay == date.day * 24 * 60

(* C24: after parseEntry every record has timeStart set, and its
   estimatedTimeRange starts on the entry's calendar date at the clock
   time timeStart, for a string date and for a Date object. *)
C24_RangeStartsAtTimeStart ==
    Returned =>
        \A i \in 1..Len(all) :
            /\ all[i].timeStart # NoTime
            /\ all[i].estimatedTimeRange[1] =
                  StartOfDay + all[i].timeStart.hours * 60 + all[i].timeStart.minutes

\* a Date object with a time of day of its own, and a bucket with an
\* untimed line before an anchor at 9:00
C24_Witness ==
    /\ Returned
    /\ ~date.str /\ date.tod # 0
    /\ Len(morningBullets) = 2
    /\ FromInterpolation(morningBullets[1])
    /\ morningBullets[1].timeStart = TimeOfDay(7, 30)
    /\ morningBullets[1].estimatedTimeRange[1] = StartOfDay + 450
    /\ morningBullets[2].timeStart = TimeOfDay(9, 0)

-----------------------------------------------------------------------------
(* The order of a range's bounds, checked under SpecRange: both bounds run
   over all hours, so the first is written before, at and after the second *)

\* the minute of the half day of H[:MM] as written (12 counts as 0)
WrittenClock(h, m) == (h % 12) * 60 + (IF m = -1 THEN 0 ELSE m)

(* C25 as claimed: whenever a record has both timeStart and timeEnd,
   timeStart is not later than timeEnd. *)
C25_StartNotAfterEnd ==
    Returned =>
        \A i \in 1..Len(all) :
            (all[i].timeStart # NoTime /\ all[i].timeEnd # NoTime) =>
                Clock(all[i].timeStart) <= Clock(all[i].timeEnd)

(* C25 amended: the two bounds of a range are read one by one and kept in
   the order written, so for a shared-meridiem range of two times of the
   12-hour clock timeStart is not later than timeEnd exactly when the first
   bound as written is not later in the half day than the second. *)
C25_OrderAsWritten ==
    (RangeParsed /\ ValidRange) =>
        /\ morningBullets[1].timeStart # NoTime
        /\ morningBullets[1].timeEnd # NoTime
        /\ (Clock(morningBullets[1].timeStart) <= Clock(morningBullets[1].timeEnd))
              = (WrittenClock(written.h1, written.m1)
                    <= WrittenClock(written.h2, written.m2))

\* 11-9am gives the start 11:00 and the end 9:00
C25_Witness ==
    /\ RangeParsed
    /\ written.h1 = 11 /\ written.m1 = -1 /\ written.h2 = 9 /\ written.m2 = -1
    /\ ~IsPM(written.mer)
    /\ morningBullets[1].timeStart = TimeOfDay(11, 0)
    /\ morningBullets[1].timeEnd = TimeOfDay(9, 0)

-----------------------------------------------------------------------------
(* SpecSameTime: parseEntry on an entry that has the same H:MM, written
   without am or pm, at the start of the line of one of the afternoon and
   the night and inside the text of the other's line *)

\* the largest hour written
MaxSameHour == 12

SameMinutes == {0, 5, 30, 59}

\* the text after the time at the start, and before the time inside
SameTails == {<<" ", "d", "i", "n", "n", "e", "r">>, <<" ", "-", " ", "x">>}
SameLead == <<"d", "i", "n", "n", "e", "r", " ", "a", "t", " ">>

InitSameTime ==
    /\ Idle
    /\ \E h \in 0..MaxSameHour, m \in SameMinutes, tail \in SameTails,
          startIn \in {"afternoon", "night"} :
          /\ morning = NullText
          /\ afternoon = (IF startIn = "afternoon" THEN BoundStr(h, m) \o tail
                          ELSE SameLead \o BoundStr(h, m))
          /\ night = (IF startIn = "night" THEN BoundStr(h, m) \o tail
                      ELSE SameLead \o BoundStr(h, m))
          /\ written = Written(startIn, h, m, 0, -1, <<>>, tail)
    /\ date = DefaultDate
    /\ halfUp = TRUE
    /\ timeStr = NoTimeStr

SpecSameTime == InitSameTime /\ [][Next]_vars

\* the call has returned for an H:MM with 1 <= H <= 11 written twice
SameTimeParsed ==
    /\ Returned /\ written.kind \in {"afternoon", "night"}
    /\ written.h1 >= 1 /\ written.h1 <= 11
    /\ Len(afternoonBullets) = 1 /\ Len(nightBullets) = 1

\* the record of the line that starts with the time, and of the other line
AtStart == IF written.kind = "afternoon" THEN afternoonBullets[1] ELSE nightBullets[1]
Inside == IF written.kind = "afternoon" THEN nightBullets[1] ELSE afternoonBullets[1]

(* C26 as claimed: in the afternoon and night an H:MM with 1 <= H <= 11
   written without am/pm resolves to the same PM time at the start of the
   line and inside the text. *)
C26_SamePMTime ==
    SameTimeParsed =>
        /\ AtStart.timeStart = Inside.timeStart
        /\ Inside.timeStart = TimeOfDay(written.h1 + 12, written.m1)

(* C26 amended: inside the text the H:MM is read as PM, (H+12):MM, but at
   the start of the line it is a 24-hour time and gives H:MM of the
   morning, twelve hours earlier. *)
C26_StartIs24Hour ==
    SameTimeParsed =>
        /\ Inside.timeStart = TimeOfDay(written.h1 + 12, written.m1)
        /\ AtStart.timeStart = TimeOfDay(written.h1, written.m1)
        /\ AtStart.timeEnd = NoTime /\ Inside.timeEnd = NoTime

\* 7:30 dinner in the night gives 7:30, dinner at 7:30 in the afternoon 19:30
C26_Witness ==
    /\ SameTimeParsed
    /\ written.kind = "night" /\ written.h1 = 7 /\ written.m1 = 30
    /\ nightBullets[1].rawText[1] = "7"
    /\ nightBullets[1].timeStart = TimeOfDay(7, 30)
    /\ afternoonBullets[1].timeStart = TimeOfDay(19, 30)

-----------------------------------------------------------------------------
(* SpecOther: parseEntry called again with the text of some buckets
   replaced and the others kept *)

\* the number of calls
MaxOtherCalls == 2

OtherMornings == {NullText, JoinLines(<<TimedLine, TopLevelLine>>)}
OtherAfternoons == {NullText, TopLevelLine, <<"2", "p", "m", " ", "w">>}
OtherNights == {TopLevelLine, JoinLines(<<<<"8", "p", "m", " ", "z">>, StarLine>>)}

InitOther ==
    /\ Idle
    /\ morning \in OtherMornings
    /\ afternoon \in OtherAfternoons
    /\ night \in OtherNights
    /\ date \in Dates
    /\ halfUp = TRUE
    /\ timeStr = NoTimeStr
    /\ written = NotWritten

NextOther ==
    Next \/ CallAgain(OtherMornings, OtherAfternoons, OtherNights, Dates, MaxOtherCalls)

SpecOther == InitOther /\ [][NextOther]_vars

\* the number of records of the buckets before the section, in a result
RecordsBefore(result, section) ==
    IF section = "morning" THEN 0
    ELSE IF section = "afternoon" THEN Len(result.morning)
    ELSE Len(result.morning) + Len(result.afternoon)

\* the record without its index
WithoutIndex(bullet) ==
    [text |-> bullet.text, rawText |-> bullet.rawText,
     timeStart |-> bullet.timeStart, timeEnd |-> bullet.timeEnd,
     estimatedTimeRange |-> bullet.estimatedTimeRange, section |-> bullet.section]

(* C27: the records of a bucket depend only on the bucket's text and the
   date: against an earlier call with the same date and the same text in
   that bucket, whatever the other buckets held, they are the same records
   but for their index, which shifts by the change in the number of records
   of the buckets before. *)
C27_BucketsIndependent ==
    Returned =>
        \A k \in 1..Len(earlier), section \in Sections :
            (earlier[k].args.date = date /\ earlier[k].args[section] = TextOf(section)) =>
                /\ Len(BulletsOf(section)) = Len(earlier[k].result[section])
                /\ \A i \in 1..Len(BulletsOf(section)) :
                      /\ WithoutIndex(BulletsOf(section)[i])
                            = WithoutIndex(earlier[k].result[section][i])
                      /\ BulletsOf(section)[i].index - earlier[k].result[section][i].index
                            = RecordsBefore(Result, section)
                                 - RecordsBefore(earlier[k].result, section)

\* the night's two lines were parsed before with an empty morning and are
\* parsed now after a morning of two records and another afternoon
C27_Witness ==
    /\ Returned
    /\ Len(earlier) = 1
    /\ earlier[1].args.date = date
    /\ earlier[1].args.night = night
    /\ earlier[1].args.morning = NullText /\ morning # NullText
    /\ earlier[1].args.afternoon # afternoon
    /\ Len(nightBullets) = 2
    /\ nightBullets[1].index = earlier[1].result.night[1].index + 2
    /\ WithoutIndex(nightBullets[2]) = WithoutIndex(earlier[1].result.night[2])

-----------------------------------------------------------------------------
(* SpecForm: useEntryForm under date changes, responses of the existing-entry
   checks in any order, submits, confirmations and responses of the upsert *)

MaxChecks == 3

MaxUpserts == 2

FormDates == {"2024-01-15", "2024-01-16"}

\* the parser is not called
ParserUnused ==
    /\ NothingParsed
    /\ shown = NoTime
    /\ morning = NullText /\ afternoon = NullText /\ night = NullText
    /\ date = DefaultDate
    /\ halfUp = TRUE
    /\ timeStr = NoTimeStr
    /\ written = NotWritten

\* the hook after its first render: isNewEntry = !entry, an entry to edit is
\* one of the stored entries, and the effect has started the first check
InitForm ==
    /\ pc = "form"
    /\ ParserUnused /\ DebounceUnmounted
    /\ entries \in SUBSET FormDates
    /\ formDate \in FormDates
    /\ isNewEntry \in BOOLEAN
    /\ ~isNewEntry => formDate \in entries
    /\ existingEntryDate = NoDate
    /\ showOverwriteConfirm = FALSE
    /\ loading = FALSE
    /\ checks = (IF isNewEntry THEN <<formDate>> ELSE <<>>)
    /\ upserts = {}

NextForm ==
    \/ UpdateDate(FormDates, MaxChecks)
    \/ CheckExistingEntryReturns
    \/ HandleSubmit(MaxUpserts)
    \/ HandleConfirmOverwrite(MaxUpserts)
    \/ CancelOverwrite
    \/ UpsertReturns

SpecForm == InitForm /\ [][NextForm]_vars

\* C29: in new-entry mode no upsert is issued for a date on which an entry
\* exists unless the overwrite confirmation was shown and confirmed for that
\* date, whatever the order of date changes, check responses and submits
C29_OverwriteConfirmed ==
    isNewEntry =>
        \A u \in upserts : u.existed => u.confirmed = u.date

\* an upsert of an existing date went out in new-entry mode after a
\* confirmation for that date
C29_Witness ==
    /\ isNewEntry
    /\ \E u \in upserts : u.existed /\ u.confirmed = u.date

-----------------------------------------------------------------------------
(* SpecDebounce: useDebouncedValue under calls of handleChange, changes of
   the external value, the passing of time, timeouts that run when due or
   later, and the unmount *)

MaxChanges == 3

MaxTime == 5

\* const { delay = 300 } = options, in steps of the clock
Delay == 2

DebounceValues == {"a", "b"}

\* the hook after its first render: useState(externalValue), no timeout
InitDebounce ==
    /\ pc = "debounce"
    /\ ParserUnused /\ FormUnmounted
    /\ externalValue \in DebounceValues
    /\ localValue = externalValue
    /\ isTyping = FALSE
    /\ timer = {}
    /\ now = 0
    /\ mounted = TRUE
    /\ changes = <<>>
    /\ onChangeCalls = <<>>

NextDebounce ==
    \/ HandleChange(DebounceValues, Delay, MaxChanges)
    \/ TimeoutRuns
    \/ ExternalValueChanges(DebounceValues)
    \/ Tick(MaxTime)
    \/ Unmount

SpecDebounce == InitDebounce /\ [][NextDebounce]_vars

\* the k-th call of handleChange ends a burst: no call follows it within delay
BurstEnd(k) ==
    \/ k = Len(changes)
    \/ k < Len(changes) /\ changes[k + 1].at - changes[k].at >= Delay

\* the calls of onChange made for the k-th call of handleChange
CallsOf(k) == {j \in 1..Len(onChangeCalls) : onChangeCalls[j].of = k}

\* nothing is left to run for the k-th call of handleChange
Settled(k) == k < Len(changes) \/ timer = {}

\* every call of onChange is for the last handleChange of a burst, carries
\* its value, is not earlier than delay after it, and is the only one for it
OnlyForBurstEnds ==
    /\ \A j \in 1..Len(onChangeCalls) :
          /\ onChangeCalls[j].of \in 1..Len(changes)
          /\ BurstEnd(onChangeCalls[j].of)
          /\ onChangeCalls[j].value = changes[onChangeCalls[j].of].value
          /\ onChangeCalls[j].at >= changes[onChangeCalls[j].of].at + Delay
    /\ \A k \in 1..Len(changes) : Cardinality(CallsOf(k)) <= 1

\* every burst whose timeout is no longer pending had its call of onChange
EveryBurstCalled ==
    \A k \in 1..Len(changes) : (BurstEnd(k) /\ Settled(k)) => CallsOf(k) # {}

\* a step that changes the external value replaces localValue exactly when
\* no timeout is pending
SyncOnlyWhenIdle ==
    externalValue' # externalValue =>
        localValue' = (IF timer = {} THEN externalValue' ELSE localValue)

\* C30 as stated: after a burst of handleChange calls onChange is called
\* exactly once, with the last value of the burst, once delay has elapsed
\* after the last call, and a change of the external value replaces
\* localValue only while no timeout is pending
C30_OncePerBurst ==
    /\ [](OnlyForBurstEnds /\ EveryBurstCalled)
    /\ [][SyncOnlyWhenIdle]_vars

\* the timeout of a burst is pending, has run, or was replaced by a later
\* handleChange that came when it was due but had not run yet
LastBurstCalled ==
    (mounted /\ changes # <<>> /\ timer = {}) => CallsOf(Len(changes)) # {}

\* C30: onChange is called at most once per burst of handleChange calls, only
\* for the last call of a burst, with its value and not before delay has
\* elapsed after it; while the hook is mounted the last burst has its call as
\* soon as no timeout is pending, and isTyping tells whether one is; a change
\* of the external value replaces localValue exactly when none is pending
C30_DebouncedWhileMounted ==
    /\ [](OnlyForBurstEnds /\ LastBurstCalled)
    /\ [](mounted => (isTyping <=> timer # {}))
    /\ [][SyncOnlyWhenIdle]_vars

\* a burst of two calls of handleChange had its one call of onChange, and an
\* external value that arrived meanwhile was not taken
C30_Witness ==
    /\ mounted /\ timer = {}
    /\ \E j \in 1..Len(onChangeCalls) :
          /\ onChangeCalls[j].of >= 2
          /\ ~BurstEnd(onChangeCalls[j].of - 1)
    /\ localValue # externalValue

====
